---- MODULE Spec2Model ----
(***************************************************************************)
(* Model of the dual-source UI-tree reconciliation core of car2.py:        *)
(*   ViewHierarchyParser  - indented geometry dump  -> geometry tree       *)
(*   UIParser             - attribute document      -> attribute tree      *)
(*   HybridUIParser       - index, scoring, recursive merge, statistics    *)
(*   CarScreenMirrorTool._parseHybridMode - dispatch on source availability*)
(*                                                                         *)
(* Text is modelled structurally:                                          *)
(*   - a resource id is a sequence of tokens; the separators ":id/" and    *)
(*     "/" are tokens of their own, every other token is a word;           *)
(*   - a class name is a sequence of dot-separated segments and a segment  *)
(*     is a sequence of CamelCase words, so "x in name" (substring) is a   *)
(*     contiguous-subsequence test on words;                               *)
(*   - a Python float is the integer number of 2^-58 units it denotes,     *)
(*     kept as a pair <<hi, lo>> in base 2^30, and float addition rounds   *)
(*     to 53 significant bits (round half to even) as IEEE-754 does.       *)
(* A tree is the sequence of its nodes in pre-order; every node carries    *)
(* the index of its parent (0 for the root of the sequence).               *)
(***************************************************************************)
EXTENDS Integers, Sequences, FiniteSets, TLC

\* ------------------------------------------------------------------------
\* Sequence helpers
\* ------------------------------------------------------------------------
Last(s) == s[Len(s)]

RECURSIVE SeqOfSet(_)
\* The elements of a finite set of integers as an ascending sequence.
SeqOfSet(S) ==
    IF S = {} THEN <<>>
    ELSE LET m == CHOOSE x \in S : \A y \in S : x <= y
         IN  <<m>> \o SeqOfSet(S \ {m})

\* pat occurs in s as a contiguous subsequence (Python: pat in s).
Contains(s, pat) ==
    \E i \in 0..(Len(s) - Len(pat)) :
        \A j \in 1..Len(pat) : s[i + j] = pat[j]

Min2(a, b) == IF a <= b THEN a ELSE b
Max2(a, b) == IF a >= b THEN a ELSE b

\* ------------------------------------------------------------------------
\* Python floats (binary64) restricted to [0, 2): units of 2^-58, base 2^30
\* ------------------------------------------------------------------------
FBase == 1073741824

FZero == <<0, 0>>

\* ulp, in units, of a value whose high limb is hi.
FUlp(hi) ==
    IF hi >= 268435456 THEN 64
    ELSE IF hi >= 134217728 THEN 32
    ELSE IF hi >= 67108864 THEN 16
    ELSE IF hi >= 33554432 THEN 8
    ELSE IF hi >= 16777216 THEN 4
    ELSE IF hi >= 8388608 THEN 2
    ELSE 1

FNorm(hi, lo) == IF lo >= FBase THEN <<hi + 1, lo - FBase>> ELSE <<hi, lo>>

\* x + y in binary64: the exact sum rounded to the nearest representable
\* value, ties to even.
FAdd(x, y) ==
    LET e == FNorm(x[1] + y[1], x[2] + y[2])
        s == FUlp(e[1])
        q == e[2] \div s
        r == e[2] % s
        up == (2 * r > s) \/ (2 * r = s /\ q % 2 = 1)
    IN  FNorm(e[1], (IF up THEN q + 1 ELSE q) * s)

FGeq(x, y) == x[1] > y[1] \/ (x[1] = y[1] /\ x[2] >= y[2])
FGt(x, y) == x[1] > y[1] \/ (x[1] = y[1] /\ x[2] > y[2])

RECURSIVE FSum(_, _)
\* acc += t for every t of terms, in order.
FSum(terms, acc) ==
    IF terms = <<>> THEN acc
    ELSE FSum(Tail(terms), FAdd(acc, Head(terms)))

\* Mutation of the id weight: an equal id adds nothing to the score.
W_ID_dropped == FZero

\* The float literals of _calculate_match_score and _find_best_match.
W_ID == <<107374182, 429496736>>          \* 0.4
W_CLASS == <<80530636, 858993456>>        \* 0.3
W_SIMILAR == <<53687091, 214748368>>      \* 0.2
W_CHILD == <<40265318, 429496728>>        \* 0.15
THRESHOLD == <<134217728, 0>>             \* 0.5

\* 0.15 * (lo / hi_) for child counts 0 < lo < hi_ : the quotient is rounded
\* to binary64, then the product is.  Equal quotients give equal products.
ChildTerm(mn, mx) ==
    CASE 2 * mn = mx -> <<20132659, 214748364>>          \* 0.15 * 0.5
      [] 3 * mn = mx -> <<13421772, 858993458>>          \* 0.15 * (1/3)
      [] 3 * mn = 2 * mx -> <<26843545, 644245092>>      \* 0.15 * (2/3)
      [] 4 * mn = mx -> <<10066329, 644245094>>          \* 0.15 * 0.25
      [] 4 * mn = 3 * mx -> <<30198988, 858993456>>      \* 0.15 * 0.75
      [] 5 * mn = mx -> <<8053063, 730144440>>           \* 0.15 * (1/5)
      [] 5 * mn = 2 * mx -> <<16106127, 386547056>>      \* 0.15 * (2/5)
      [] 5 * mn = 3 * mx -> <<24159191, 42949672>>       \* 0.15 * (3/5)
      [] 5 * mn = 4 * mx -> <<32212254, 773094112>>      \* 0.15 * (4/5)
      [] 6 * mn = mx -> <<6710886, 429496729>>           \* 0.15 * (1/6)
      [] 6 * mn = 5 * mx -> <<33554432, 0>>              \* 0.15 * (5/6)

\* 0.15 * (attr_score / attr_count) with attr_count = 4.
AttrTerm(k) ==
    CASE k = 0 -> FZero
      [] k = 1 -> <<10066329, 644245094>>                \* 0.15 * 0.25
      [] k = 2 -> <<20132659, 214748364>>                \* 0.15 * 0.5
      [] k = 3 -> <<30198988, 858993456>>                \* 0.15 * 0.75
      [] k = 4 -> <<40265318, 429496728>>                \* 0.15 * 1.0

\* ------------------------------------------------------------------------
\* Class names and resource ids
\* ------------------------------------------------------------------------
\* class.split('.')[-1]
LastSegment(cls) == Last(cls)

\* 'word' in class  (a substring without dots lies inside one segment)
ClassContains(cls, pat) == \E i \in 1..Len(cls) : Contains(cls[i], pat)

\* type_groups of _similar_class_names, one list of class names per group.
type_groups ==
    << \* text
       { <<"Text", "View">>, <<"Edit", "Text">>,
         <<"Text", "Input", "Edit", "Text">>, <<"AppCompat", "Text", "View">> },
       \* button
       { <<"Button">>, <<"Image", "Button">>, <<"AppCompat", "Button">>,
         <<"Material", "Button">> },
       \* image
       { <<"Image", "View">>, <<"AppCompat", "Image", "View">>,
         <<"Image", "Button">> },
       \* layout
       { <<"Linear", "Layout">>, <<"Relative", "Layout">>,
         <<"Frame", "Layout">>, <<"Constraint", "Layout">> },
       \* container
       { <<"Recycler", "View">>, <<"List", "View">>, <<"Scroll", "View">>,
         <<"View", "Pager">> } >>

similar_class_names(class1, class2) ==
    \/ class1 = class2
    \/ \E g \in 1..Len(type_groups) :
          /\ \E c \in type_groups[g] : Contains(class1, c)
          /\ \E c \in type_groups[g] : Contains(class2, c)

IsSep(tok) == tok \in {":id/", "/"}

\* Index of the last occurrence of a token of S in s, 0 if there is none.
LastIndexOf(s, S) ==
    IF \E i \in 1..Len(s) : s[i] \in S
    THEN CHOOSE i \in 1..Len(s) :
            s[i] \in S /\ \A j \in (i + 1)..Len(s) : s[j] \notin S
    ELSE 0

\* HybridUIParser._extract_id_suffix: None for an empty id, else the text
\* after the last ':id/', else after the last '/', else the whole id.
\* None and '' are both written <<>>: every caller only tests the result
\* for truthiness before using it as a key.
extract_id_suffix(full_id) ==
    IF full_id = <<>> THEN <<>>
    ELSE IF \E i \in 1..Len(full_id) : full_id[i] = ":id/"
    THEN SubSeq(full_id, LastIndexOf(full_id, {":id/"}) + 1, Len(full_id))
    ELSE IF \E i \in 1..Len(full_id) : IsSep(full_id[i])
    THEN SubSeq(full_id, LastIndexOf(full_id, {"/"}) + 1, Len(full_id))
    ELSE full_id

\* Python truthiness of a string (or of None, written <<>>).
Truthy(str) == str # <<>>

\* 'content' in resource_id or resource_id.endswith(':id/content')
IsContentId(resource_id) ==
    \/ \E i \in 1..Len(resource_id) : resource_id[i] = "content"
    \/ /\ Len(resource_id) >= 2
       /\ resource_id[Len(resource_id) - 1] = ":id/"
       /\ resource_id[Len(resource_id)] = "content"

\* ------------------------------------------------------------------------
\* Trees: sequences of nodes in pre-order with parent indices
\* ------------------------------------------------------------------------
RECURSIVE IsAncestor(_, _, _)
\* a is a proper ancestor of i in tree t.
IsAncestor(t, a, i) ==
    IF i = 0 \/ t[i].parent = 0 THEN FALSE
    ELSE t[i].parent = a \/ IsAncestor(t, a, t[i].parent)

\* node['children'] as the ascending sequence of child indices.
Children(t, i) == SeqOfSet({j \in 1..Len(t) : t[j].parent = i})

ChildCount(t, i) == Cardinality({j \in 1..Len(t) : t[j].parent = i})

\* The nodes of the subtree rooted at i, in pre-order.
Subtree(t, i) == SeqOfSet({i} \cup {j \in 1..Len(t) : IsAncestor(t, i, j)})

RECURSIVE DepthBelow(_, _, _)
\* Number of edges from ancestor-or-self a down to i.
DepthBelow(t, a, i) == IF i = a THEN 0 ELSE 1 + DepthBelow(t, a, t[i].parent)

\* ------------------------------------------------------------------------
\* ViewHierarchyParser
\* ------------------------------------------------------------------------
\* A dump line is modelled by what the regular expressions of _parse_line can
\* see in it:
\*   indent  number of leading blanks
\*   blank   the line is empty or is the 'View Hierarchy:' header
\*   cls     the class name at the start of the stripped line, <<>> if the
\*           line does not start with one
\*   bounds  <<left, top, right, bottom>> of the first "l,t-r,b" group, <<>>
\*           if there is none
\*   rid     the name captured after "#hex app:id/", <<>> if there is none
\*   flagF, flagE, flagC   the flag field contains ".F", ".E", ".C"
FILTER_IDS == {"action_mode_bar_stub", "navigationBarBackground", "statusBarBackground"}

FILTER_CLASSES == { << <<"android">>, <<"view">>, <<"Indicator", "Bar">> >> }

\* First letter of the CamelCase / package words that occur in class names.
Initial(word) ==
    CASE word \in {"Frame"} -> "F"
      [] word \in {"Edit"} -> "E"
      [] word \in {"Constraint"} -> "C"
      [] OTHER -> "other"

\* '.X' in line: in the flag field, or a class segment after the first one
\* starts with X.
LineHasDot(line, letter, inFlags) ==
    \/ inFlags
    \/ \E i \in 2..Len(line.cls) :
          line.cls[i] # <<>> /\ Initial(line.cls[i][1]) = letter

PyBool(b) == IF b THEN "true" ELSE "false"

\* ViewHierarchyParser._parse_line: None (here a record with ok = FALSE)
\* unless the line yields both a class name and a bounds quadruple.
parse_line(line) ==
    IF line.cls = <<>> \/ line.bounds = <<>>
    THEN [ok |-> FALSE]
    ELSE [ok |-> TRUE,
          class |-> line.cls,
          bounds |-> line.bounds,
          resource_id |-> line.rid,
          focusable |-> LineHasDot(line, "F", line.flagF),
          enabled |-> LineHasDot(line, "E", line.flagE),
          clickable |-> \/ LineHasDot(line, "C", line.flagC)
                        \/ ClassContains(line.cls, <<"Button">>)
                        \/ ClassContains(line.cls, <<"Text", "View">>)]

\* Mutation of _should_filter: a size test on either dimension.
should_filter_zero_area(view_info) ==
    \/ /\ Truthy(view_info.resource_id)
       /\ \E i \in 1..Len(view_info.resource_id) :
             view_info.resource_id[i] \in FILTER_IDS
    \/ view_info.class \in FILTER_CLASSES
    \/ view_info.bounds[3] - view_info.bounds[1] = 0
    \/ view_info.bounds[4] - view_info.bounds[2] = 0

\* ViewHierarchyParser._should_filter
should_filter(view_info) ==
    \/ /\ Truthy(view_info.resource_id)
       /\ \E i \in 1..Len(view_info.resource_id) :
             view_info.resource_id[i] \in FILTER_IDS
    \/ view_info.class \in FILTER_CLASSES
    \/ /\ view_info.bounds[3] - view_info.bounds[1] = 0
       /\ view_info.bounds[4] - view_info.bounds[2] = 0

\* Mutation of _calculate_absolute_bounds: the parent's origin is not added.
calculate_absolute_bounds_unshifted(parent_bounds, child_bounds) == child_bounds

\* Mutation of _calculate_absolute_bounds: the size of the rectangle is
\* scaled down while it is moved.
calculate_absolute_bounds_scaled(parent_bounds, child_bounds) ==
    << parent_bounds[1] + child_bounds[1], parent_bounds[2] + child_bounds[2],
       parent_bounds[1] + child_bounds[1]
          + (child_bounds[3] - child_bounds[1]) \div 16,
       parent_bounds[2] + child_bounds[2]
          + (child_bounds[4] - child_bounds[2]) \div 16 >>

\* Mutation of _calculate_absolute_bounds: the right and bottom are measured
\* from the parent's right and bottom.
calculate_absolute_bounds_from_corner(parent_bounds, child_bounds) ==
    << parent_bounds[1] + child_bounds[1], parent_bounds[2] + child_bounds[2],
       parent_bounds[3] + child_bounds[3], parent_bounds[4] + child_bounds[4] >>

\* ViewHierarchyParser._calculate_absolute_bounds (both strings always match
\* the "l,t-r,b" pattern here, so neither early return is taken).
calculate_absolute_bounds(parent_bounds, child_bounds) ==
    << parent_bounds[1] + child_bounds[1], parent_bounds[2] + child_bounds[2],
       parent_bounds[1] + child_bounds[3], parent_bounds[2] + child_bounds[4] >>

\* The bounds attribute of a node is a string, written as the sequence of
\* its characters.
Digits == <<"0", "1", "2", "3", "4", "5", "6", "7", "8", "9">>

IsDigit(ch) == \E d \in 1..10 : Digits[d] = ch

DigitValue(ch) == (CHOOSE d \in 1..10 : Digits[d] = ch) - 1

RECURSIVE IntToStr(_)
\* str(n) of an int, as the f-string formats it.
IntToStr(n) ==
    IF n < 0 THEN <<"-">> \o IntToStr(0 - n)
    ELSE IF n < 10 THEN <<Digits[n + 1]>>
    ELSE IntToStr(n \div 10) \o <<Digits[(n % 10) + 1]>>

\* Mutation of format_ui_bounds: the two corners are written x first, then y.
format_ui_bounds_by_axis(left, top, right, bottom) ==
    <<"[">> \o IntToStr(left) \o <<",">> \o IntToStr(right) \o <<"]">>
    \o <<"[">> \o IntToStr(top) \o <<",">> \o IntToStr(bottom) \o <<"]">>

\* _create_ui_node: f"[{left},{top}][{right},{bottom}]"
format_ui_bounds(left, top, right, bottom) ==
    <<"[">> \o IntToStr(left) \o <<",">> \o IntToStr(top) \o <<"]">>
    \o <<"[">> \o IntToStr(right) \o <<",">> \o IntToStr(bottom) \o <<"]">>

RECURSIVE FindDigits(_, _, _, _)
\* The scan of re.findall(r'\d+', str) from character i on: run tells
\* whether a group of digits is open and cur is its value so far.
FindDigits(str, i, run, cur) ==
    IF i > Len(str) THEN (IF run THEN <<cur>> ELSE <<>>)
    ELSE IF IsDigit(str[i])
    THEN FindDigits(str, i + 1, TRUE,
                    (IF run THEN 10 * cur ELSE 0) + DigitValue(str[i]))
    ELSE (IF run THEN <<cur>> ELSE <<>>) \o FindDigits(str, i + 1, FALSE, 0)

\* _parse_node: [int(m) for m in re.findall(r'\d+', bounds_str)]
findall_digits(bounds_str) == FindDigits(bounds_str, 1, FALSE, 0)

\* Mutation of _create_ui_node: a negative width or height is raised to 0.
create_ui_node_clamped(view_info, abs, parent, indent, src) ==
    [class |-> view_info.class,
     resource_id |-> IF Truthy(view_info.resource_id)
                     THEN <<"app", ":id/">> \o view_info.resource_id
                     ELSE <<>>,
     text |-> "",
     content_desc |-> "",
     bounds |-> format_ui_bounds(abs[1], abs[2], abs[3], abs[4]),
     absolute_bounds |-> abs,
     clickable |-> PyBool(view_info.clickable),
     enabled |-> PyBool(view_info.enabled),
     focusable |-> PyBool(view_info.focusable),
     scrollable |-> "false",
     focused |-> "absent", long_clickable |-> "absent", selected |-> "absent",
     checkable |-> "absent", checked |-> "absent",
     x1 |-> abs[1], y1 |-> abs[2], x2 |-> abs[3], y2 |-> abs[4],
     center_x |-> (abs[1] + abs[3]) \div 2,
     center_y |-> (abs[2] + abs[4]) \div 2,
     width |-> Max2(abs[3] - abs[1], 0),
     height |-> Max2(abs[4] - abs[2], 0),
     text_source |-> "absent",
     info_supplemented |-> "absent",
     text_matched |-> "absent",
     parent |-> parent, indent |-> indent, src |-> src]

\* ViewHierarchyParser._create_ui_node for a view with absolute bounds abs.
\* parent, indent and src (the number of the input line) locate the node;
\* absolute_bounds is view_info['absolute_bounds'], which parse reads back
\* from parent_stack.
create_ui_node(view_info, abs, parent, indent, src) ==
    [class |-> view_info.class,
     resource_id |-> IF Truthy(view_info.resource_id)
                     THEN <<"app", ":id/">> \o view_info.resource_id
                     ELSE <<>>,
     text |-> "",
     content_desc |-> "",
     bounds |-> format_ui_bounds(abs[1], abs[2], abs[3], abs[4]),
     absolute_bounds |-> abs,
     clickable |-> PyBool(view_info.clickable),
     enabled |-> PyBool(view_info.enabled),
     focusable |-> PyBool(view_info.focusable),
     scrollable |-> "false",
     focused |-> "absent", long_clickable |-> "absent", selected |-> "absent",
     checkable |-> "absent", checked |-> "absent",
     x1 |-> abs[1], y1 |-> abs[2], x2 |-> abs[3], y2 |-> abs[4],
     center_x |-> (abs[1] + abs[3]) \div 2,
     center_y |-> (abs[2] + abs[4]) \div 2,
     width |-> abs[3] - abs[1],
     height |-> abs[4] - abs[2],
     text_source |-> "absent",
     info_supplemented |-> "absent",
     text_matched |-> "absent",
     parent |-> parent, indent |-> indent, src |-> src]

\* ViewHierarchyParser._create_virtual_root
create_virtual_root ==
    [class |-> << <<"Root", "Node">> >>,
     resource_id |-> <<>>,
     text |-> "",
     content_desc |-> "",
     bounds |-> <<"[", "0", ",", "0", "]", "[", "0", ",", "0", "]">>,
     absolute_bounds |-> <<0, 0, 0, 0>>,
     clickable |-> "false",
     enabled |-> "true",
     focusable |-> "false",
     scrollable |-> "false",
     focused |-> "absent", long_clickable |-> "absent", selected |-> "absent",
     checkable |-> "absent", checked |-> "absent",
     x1 |-> 0, y1 |-> 0, x2 |-> 0, y2 |-> 0,
     center_x |-> 0, center_y |-> 0, width |-> 0, height |-> 0,
     text_source |-> "absent",
     info_supplemented |-> "absent",
     text_matched |-> "absent",
     parent |-> 0, indent |-> -1, src |-> 0]

\* State of one ViewHierarchyParser.parse run before its first line:
\*   nodes   the kept nodes in the order they were attached (children of the
\*           virtual root have parent 0)
\*   parent_stack, nodes_stack   indices into nodes
\*   last    what the loop body did with the line just processed
ParserInit ==
    [parent_stack |-> <<>>, nodes_stack |-> <<>>,
     skip_children_until_indent |-> -1,
     nodes |-> <<>>, views |-> <<>>, last |-> "start"]

RECURSIVE PopStack_deeper_only(_, _, _)
\* Mutation of the pop loop: an entry of the same indent stays on the stack.
PopStack_deeper_only(stack, nodes, indent_level) ==
    IF Len(stack) > 0 /\ nodes[Last(stack)].indent > indent_level
    THEN PopStack_deeper_only(SubSeq(stack, 1, Len(stack) - 1), nodes,
                              indent_level)
    ELSE stack

RECURSIVE PopStack(_, _, _)
\* while parent_stack and parent_stack[-1]['indent'] >= indent_level: pop
PopStack(stack, nodes, indent_level) ==
    IF Len(stack) > 0 /\ nodes[Last(stack)].indent >= indent_level
    THEN PopStack(SubSeq(stack, 1, Len(stack) - 1), nodes, indent_level)
    ELSE stack

\* Mutation of InSkippedSubtree: a line at the indent of the filtered line
\* is taken for one of its children.
InSkippedSubtree_geq(skip_children_until_indent, indent_level) ==
    /\ skip_children_until_indent >= 0
    /\ indent_level >= skip_children_until_indent

\* if skip_children_until_indent >= 0: if indent_level > skip_children_until_indent
InSkippedSubtree(skip_children_until_indent, indent_level) ==
    /\ skip_children_until_indent >= 0
    /\ indent_level > skip_children_until_indent

\* One iteration of the for loop of ViewHierarchyParser.parse on input line
\* number n.
ParseLoopBody(p, line, n) ==
    IF line.blank THEN [p EXCEPT !.last = "blank"]
    ELSE IF InSkippedSubtree(p.skip_children_until_indent, line.indent)
    THEN [p EXCEPT !.last = "skipped"]
    ELSE
    LET p1 == [p EXCEPT !.skip_children_until_indent = -1]
        view_info == parse_line(line)
    IN  IF ~view_info.ok THEN [p1 EXCEPT !.last = "malformed"]
        ELSE IF should_filter(view_info)
        THEN [p1 EXCEPT !.skip_children_until_indent = line.indent,
                        !.last = "filtered"]
        ELSE
        LET pstack == PopStack(p1.parent_stack, p1.nodes, line.indent)
            nstack == SubSeq(p1.nodes_stack, 1,
                        Max2(0, Len(p1.nodes_stack)
                                 - (Len(p1.parent_stack) - Len(pstack))))
            abs == IF Len(pstack) > 0
                   THEN calculate_absolute_bounds(
                            p1.nodes[Last(pstack)].absolute_bounds,
                            view_info.bounds)
                   ELSE view_info.bounds
            ui_node == create_ui_node(view_info, abs,
                          IF Len(nstack) > 0 THEN Last(nstack) ELSE 0,
                          line.indent, n)
            k == Len(p1.nodes) + 1
        IN  IF ui_node.width = 0 /\ ui_node.height = 0
            THEN [p1 EXCEPT !.parent_stack = pstack, !.nodes_stack = nstack,
                            !.skip_children_until_indent = line.indent,
                            !.last = "filtered_abs"]
            ELSE [p1 EXCEPT !.parent_stack = Append(pstack, k),
                            !.nodes_stack = Append(nstack, k),
                            !.nodes = Append(p1.nodes, ui_node),
                            !.views = Append(p1.views, k),
                            !.last = "kept"]

RECURSIVE ParseFrom(_, _, _)
\* ViewHierarchyParser.parse: the loop over all lines from line n on.
ParseFrom(p, lines, n) ==
    IF n > Len(lines) THEN p
    ELSE ParseFrom(ParseLoopBody(p, lines[n], n), lines, n + 1)

\* Mutation of to_ui_format: the virtual root is always returned.
to_ui_format_always_root(nodes) ==
    <<create_virtual_root>>
    \o [i \in 1..Len(nodes) |-> [nodes[i] EXCEPT !.parent = @ + 1]]

\* ViewHierarchyParser.to_ui_format: the only top-level node if there is
\* exactly one, else the virtual root above all of them.
to_ui_format(nodes) ==
    IF Cardinality({i \in 1..Len(nodes) : nodes[i].parent = 0}) = 1
    THEN nodes
    ELSE <<create_virtual_root>>
         \o [i \in 1..Len(nodes) |-> [nodes[i] EXCEPT !.parent = @ + 1]]

\* ------------------------------------------------------------------------
\* UIParser
\* ------------------------------------------------------------------------
\* An attribute document is [wellformed, elems]; elems lists the elements in
\* document order, each with the index of its parent element and the
\* attributes it carries.  bounds is the sequence of digit groups of the
\* bounds attribute (re.findall(r'\d+', bounds_str)).
\* UIParser._parse_node for one element; '_used' is absent (FALSE) on a
\* freshly parsed node.
parse_node(elem) ==
    [class |-> elem.class,
     resource_id |-> elem.resource_id,
     text |-> elem.text,
     content_desc |-> elem.content_desc,
     bounds |-> elem.bounds,
     clickable |-> elem.clickable,
     enabled |-> elem.enabled,
     focusable |-> elem.focusable,
     scrollable |-> elem.scrollable,
     focused |-> elem.focused,
     long_clickable |-> elem.long_clickable,
     selected |-> elem.selected,
     checkable |-> elem.checkable,
     checked |-> elem.checked,
     has_geometry |-> Len(elem.bounds) = 4,
     x1 |-> IF Len(elem.bounds) = 4 THEN elem.bounds[1] ELSE 0,
     y1 |-> IF Len(elem.bounds) = 4 THEN elem.bounds[2] ELSE 0,
     x2 |-> IF Len(elem.bounds) = 4 THEN elem.bounds[3] ELSE 0,
     y2 |-> IF Len(elem.bounds) = 4 THEN elem.bounds[4] ELSE 0,
     width |-> IF Len(elem.bounds) = 4 THEN elem.bounds[3] - elem.bounds[1] ELSE 0,
     height |-> IF Len(elem.bounds) = 4 THEN elem.bounds[4] - elem.bounds[2] ELSE 0,
     used |-> FALSE,
     parent |-> elem.parent]

\* Mutation of parse_ui_xml: what was read before the error is returned.
parse_ui_xml_partial(doc) ==
    [i \in 1..Len(doc.elems) |-> parse_node(doc.elems[i])]

\* UIParser.parse_ui_xml: the tree of the document, or None (written <<>>)
\* when ET.parse raises on a malformed document.
parse_ui_xml(doc) ==
    IF doc.wellformed
    THEN [i \in 1..Len(doc.elems) |-> parse_node(doc.elems[i])]
    ELSE <<>>

\* 'x1' in node and 'y1' in node and 'x2' in node and 'y2' in node: a node
\* of the geometry parser always has them, a node of the attribute parser
\* when its bounds attribute held four numbers.
HasCoordinates(node) ==
    IF "has_geometry" \in DOMAIN node THEN node.has_geometry ELSE TRUE

\* UIParser._find_elements_at_point: the nodes of the tree below root, in
\* pre-order, that have coordinates and hold the point within their bounds.
find_elements_at_point(t, root, x, y) ==
    LET Holds(i) == /\ HasCoordinates(t[i])
                    /\ t[i].x1 <= x /\ x <= t[i].x2
                    /\ t[i].y1 <= y /\ y <= t[i].y2
    IN  SelectSeq(Subtree(t, root), Holds)

\* Mutation of find_element_at_point: the first element found is returned.
find_element_at_point_first(ui_data, x, y) ==
    IF ui_data.tree = <<>> THEN 0
    ELSE IF find_elements_at_point(ui_data.tree, ui_data.root, x, y) # <<>>
    THEN find_elements_at_point(ui_data.tree, ui_data.root, x, y)[1]
    ELSE 0

\* UIParser.find_element_at_point: min(elements, key=width * height), the
\* first of the elements with the least product; 0 for None.
find_element_at_point(ui_data, x, y) ==
    IF ui_data.tree = <<>> THEN 0
    ELSE LET t == ui_data.tree
             elements == find_elements_at_point(t, ui_data.root, x, y)
             Key(i) == t[i].width * t[i].height
         IN  IF elements # <<>>
             THEN elements[CHOOSE k \in 1..Len(elements) :
                              /\ \A j \in 1..Len(elements) :
                                    Key(elements[k]) <= Key(elements[j])
                              /\ \A j \in 1..(k - 1) :
                                    Key(elements[j]) # Key(elements[k])]
             ELSE 0

\* ------------------------------------------------------------------------
\* CarScreenMirrorTool.searchElement
\* ------------------------------------------------------------------------
\* In the search the strings are sequences of characters.
UpperCase == <<"A", "B", "L", "T">>
LowerCase == <<"a", "b", "l", "t">>

\* str.lower()
Lower(str) ==
    [i \in 1..Len(str) |->
        IF \E k \in 1..Len(UpperCase) : UpperCase[k] = str[i]
        THEN LowerCase[CHOOSE k \in 1..Len(UpperCase) : UpperCase[k] = str[i]]
        ELSE str[i]]

\* Mutation of the test of _searchInNode: the fields are not lowered.
node_matches_case_sensitive(node, text) ==
    \/ Contains(node.resource_id, text)
    \/ Contains(node.text, text)
    \/ Contains(node.class, text)
    \/ Contains(node.content_desc, text)

\* The test of _searchInNode on one node.
node_matches(node, text) ==
    \/ Contains(Lower(node.resource_id), text)
    \/ Contains(Lower(node.text), text)
    \/ Contains(Lower(node.class), text)
    \/ Contains(Lower(node.content_desc), text)

\* CarScreenMirrorTool._searchInNode from the node root: the hits in
\* pre-order.
searchInNode(t, root, text) ==
    LET Hit(i) == node_matches(t[i], text)
    IN  SelectSeq(Subtree(t, root), Hit)

\* ------------------------------------------------------------------------
\* HybridUIParser: pure parts
\* ------------------------------------------------------------------------
\* A reference to an attribute node is <<o, i>>: node i of the attribute tree
\* object objs[o].  NoNode stands for None.
NoNode == <<0, 0>>

\* HybridUIParser._find_content_node: the first node of the subtree of root,
\* in pre-order, whose resource id names "content"; 0 for None.
find_content_node(t, root) ==
    LET hits == {i \in 1..Len(t) :
                    /\ i = root \/ IsAncestor(t, root, i)
                    /\ Truthy(t[i].resource_id)
                    /\ IsContentId(t[i].resource_id)}
    IN  IF hits = {} THEN 0 ELSE CHOOSE i \in hits : \A j \in hits : i <= j

RECURSIVE IndexNodes(_, _, _, _)
\* The body of _build_ui_index applied to the nodes of order, one by one.
IndexNodes(map, objs, o, order) ==
    IF order = <<>> THEN map
    ELSE LET i == Head(order)
             resource_id == objs[o][i].resource_id
             id_suffix == extract_id_suffix(resource_id)
             map1 == IF Truthy(resource_id) /\ Truthy(id_suffix)
                     THEN [k \in DOMAIN map \cup {id_suffix} |->
                             IF k = id_suffix
                             THEN Append(IF k \in DOMAIN map THEN map[k]
                                         ELSE <<>>, <<o, i>>)
                             ELSE map[k]]
                     ELSE map
         IN  IndexNodes(map1, objs, o, Tail(order))

\* HybridUIParser._build_ui_index(ui_content): adds the nodes of the subtree
\* of node root of objs[o] to the map it is given (self.ui_node_map).
build_ui_index(map, objs, o, root) ==
    IndexNodes(map, objs, o, Subtree(objs[o], root))

\* HybridUIParser._is_node_available
is_node_available(objs, ref) == ~objs[ref[1]][ref[2]].used

\* Mutation of _mark_node_used: the flag is not set.
mark_node_used_not(objs, ref) == objs

\* Mutation of _mark_node_used: reserving a node releases the other nodes of
\* its tree.
mark_node_used_exclusive(objs, ref) ==
    [objs EXCEPT ![ref[1]] =
        [i \in 1..Len(objs[ref[1]]) |->
            [objs[ref[1]][i] EXCEPT !.used = (i = ref[2])]]]

\* HybridUIParser._mark_node_used
mark_node_used(objs, ref) ==
    [objs EXCEPT ![ref[1]][ref[2]].used = TRUE]

\* Number of the four compared attributes on which the two nodes agree.
AttrAgree(vh_node, ui_node) ==
    (IF vh_node.clickable = ui_node.clickable THEN 1 ELSE 0)
    + (IF vh_node.focusable = ui_node.focusable THEN 1 ELSE 0)
    + (IF vh_node.enabled = ui_node.enabled THEN 1 ELSE 0)
    + (IF vh_node.scrollable = ui_node.scrollable THEN 1 ELSE 0)

\* Class term of the score: 0.3 for equal last segments, 0.2 for similar
\* ones, nothing otherwise.
ClassTerm(vh_class, ui_class) ==
    IF vh_class = ui_class THEN W_CLASS
    ELSE IF similar_class_names(vh_class, ui_class) THEN W_SIMILAR
    ELSE FZero

\* Child-count term of the score.
ChildCountTerm(vh_child_count, ui_child_count) ==
    IF vh_child_count = ui_child_count THEN W_CHILD
    ELSE IF vh_child_count > 0 /\ ui_child_count > 0
    THEN ChildTerm(Min2(vh_child_count, ui_child_count),
                   Max2(vh_child_count, ui_child_count))
    ELSE FZero

\* HybridUIParser._calculate_match_score for geometry node v of tree vh and
\* attribute node ref: score starts at 0.0 and each term is added in turn
\* (a term of a branch not taken is 0.0, whose addition changes nothing).
calculate_match_score(vh, v, objs, ref, has_same_id) ==
    FSum(<< IF has_same_id THEN W_ID ELSE FZero,
            ClassTerm(LastSegment(vh[v].class),
                      LastSegment(objs[ref[1]][ref[2]].class)),
            ChildCountTerm(ChildCount(vh, v), ChildCount(objs[ref[1]], ref[2])),
            AttrTerm(AttrAgree(vh[v], objs[ref[1]][ref[2]])) >>,
         FZero)

\* Mutation of _search_in_subtree: the walk is not cut at max_depth.
search_in_subtree_unbounded(vh, v, objs, ui_root, max_depth) ==
    LET t == objs[ui_root[1]]
        order == Subtree(t, ui_root[2])
        Keep(i) == /\ is_node_available(objs, <<ui_root[1], i>>)
                   /\ FGt(calculate_match_score(vh, v, objs, <<ui_root[1], i>>, FALSE),
                          FZero)
        kept == SelectSeq(order, Keep)
    IN  [k \in 1..Len(kept) |->
            << <<ui_root[1], kept[k]>>,
               calculate_match_score(vh, v, objs, <<ui_root[1], kept[k]>>, FALSE) >>]

\* HybridUIParser._search_in_subtree: the candidates found by the walk from
\* ui_root, as <<ref, score>> pairs in the order the walk appends them: the
\* available nodes at most max_depth levels below ui_root whose score is
\* positive, in pre-order.
search_in_subtree(vh, v, objs, ui_root, max_depth) ==
    LET t == objs[ui_root[1]]
        order == Subtree(t, ui_root[2])
        Keep(i) == /\ DepthBelow(t, ui_root[2], i) <= max_depth
                   /\ is_node_available(objs, <<ui_root[1], i>>)
                   /\ FGt(calculate_match_score(vh, v, objs, <<ui_root[1], i>>, FALSE),
                          FZero)
        kept == SelectSeq(order, Keep)
    IN  [k \in 1..Len(kept) |->
            << <<ui_root[1], kept[k]>>,
               calculate_match_score(vh, v, objs, <<ui_root[1], kept[k]>>, FALSE) >>]

RECURSIVE sort_candidates_unstable(_)
\* Mutation of the sort: among equal scores the one appended last comes first.
sort_candidates_unstable(candidates) ==
    IF candidates = <<>> THEN <<>>
    ELSE LET best == CHOOSE i \in 1..Len(candidates) :
                        /\ \A j \in 1..Len(candidates) :
                              FGeq(candidates[i][2], candidates[j][2])
                        /\ \A j \in (i + 1)..Len(candidates) :
                              candidates[j][2] # candidates[i][2]
         IN  <<candidates[best]>>
             \o sort_candidates_unstable(SubSeq(candidates, 1, best - 1)
                                \o SubSeq(candidates, best + 1, Len(candidates)))

RECURSIVE sort_candidates(_)
\* candidates.sort(key=score, reverse=True): a stable sort, equal scores keep
\* the order in which they were appended.
sort_candidates(candidates) ==
    IF candidates = <<>> THEN <<>>
    ELSE LET best == CHOOSE i \in 1..Len(candidates) :
                        /\ \A j \in 1..Len(candidates) :
                              FGeq(candidates[i][2], candidates[j][2])
                        /\ \A j \in 1..(i - 1) :
                              candidates[j][2] # candidates[i][2]
         IN  <<candidates[best]>>
             \o sort_candidates(SubSeq(candidates, 1, best - 1)
                                \o SubSeq(candidates, best + 1, Len(candidates)))

MAX_DEPTH == 2

\* _find_best_match, strategy 1: the available nodes the index lists under
\* the id suffix of the geometry node, in the order of the list.
id_candidates(vh, v, objs, map) ==
    LET vh_id == vh[v].resource_id
        id_suffix == extract_id_suffix(vh_id)
        listed == IF Truthy(vh_id) /\ Truthy(id_suffix) /\ id_suffix \in DOMAIN map
                  THEN map[id_suffix] ELSE <<>>
        Avail(ref) == is_node_available(objs, ref)
        by_id == SelectSeq(listed, Avail)
    IN  [k \in 1..Len(by_id) |->
            <<by_id[k], calculate_match_score(vh, v, objs, by_id[k], TRUE)>>]

\* The candidate list _find_best_match collects: by id through the index,
\* then by the walk of the context subtree.
collect_candidates(vh, v, objs, map, ui_context) ==
    id_candidates(vh, v, objs, map)
    \o (IF ui_context # NoNode
        THEN search_in_subtree(vh, v, objs, ui_context, MAX_DEPTH)
        ELSE <<>>)

\* Mutation of the acceptance test: the best candidate is taken whatever
\* its score.
accept_best_any(candidates) ==
    IF candidates # <<>> THEN sort_candidates(candidates)[1][1] ELSE NoNode

\* The candidate _find_best_match accepts (NoNode for None): the head of the
\* sorted list when its score reaches the threshold.
accept_best(candidates) ==
    IF candidates # <<>>
       /\ FGeq(sort_candidates(candidates)[1][2], THRESHOLD)
    THEN sort_candidates(candidates)[1][1]
    ELSE NoNode

\* Mutation of _supplement_text_info: the text is preferred to the content
\* description.
supplement_text_info_text_first(vh_node, ui_node) ==
    LET n1 == IF ui_node.text # ""
              THEN [vh_node EXCEPT !.content_desc = ui_node.text,
                                   !.text_source = "text"]
              ELSE IF ui_node.content_desc # ""
              THEN [vh_node EXCEPT !.content_desc = ui_node.content_desc,
                                   !.text_source = "content-desc"]
              ELSE vh_node
        n2 == [n1 EXCEPT !.text = ui_node.text]
        n3 == IF Truthy(ui_node.resource_id) /\ ~Truthy(n2.resource_id)
              THEN [n2 EXCEPT !.resource_id = ui_node.resource_id]
              ELSE n2
    IN  [n3 EXCEPT !.clickable = ui_node.clickable,
                   !.long_clickable = ui_node.long_clickable,
                   !.checkable = ui_node.checkable,
                   !.checked = ui_node.checked,
                   !.selected = ui_node.selected,
                   !.enabled = ui_node.enabled,
                   !.focusable = ui_node.focusable,
                   !.focused = ui_node.focused,
                   !.scrollable = ui_node.scrollable,
                   !.info_supplemented = "True",
                   !.text_matched = "True"]

\* Mutation of _supplement_text_info: the resource id of the attribute node
\* always replaces the one of the geometry node.
supplement_text_info_id_always(vh_node, ui_node) ==
    LET n1 == IF ui_node.content_desc # ""
              THEN [vh_node EXCEPT !.content_desc = ui_node.content_desc,
                                   !.text_source = "content-desc"]
              ELSE IF ui_node.text # ""
              THEN [vh_node EXCEPT !.content_desc = ui_node.text,
                                   !.text_source = "text"]
              ELSE vh_node
        n2 == [n1 EXCEPT !.text = ui_node.text]
        n3 == IF Truthy(ui_node.resource_id)
              THEN [n2 EXCEPT !.resource_id = ui_node.resource_id]
              ELSE n2
    IN  [n3 EXCEPT !.clickable = ui_node.clickable,
                   !.long_clickable = ui_node.long_clickable,
                   !.checkable = ui_node.checkable,
                   !.checked = ui_node.checked,
                   !.selected = ui_node.selected,
                   !.enabled = ui_node.enabled,
                   !.focusable = ui_node.focusable,
                   !.focused = ui_node.focused,
                   !.scrollable = ui_node.scrollable,
                   !.info_supplemented = "True",
                   !.text_matched = "True"]

\* Mutation of _supplement_text_info: class and geometry of the attribute
\* node are copied as well.
supplement_text_info_with_geometry(vh_node, ui_node) ==
    [supplement_text_info_id_always(vh_node, ui_node) EXCEPT
        !.resource_id = IF Truthy(ui_node.resource_id)
                           /\ ~Truthy(vh_node.resource_id)
                        THEN ui_node.resource_id
                        ELSE vh_node.resource_id,
        !.class = ui_node.class,
        !.x1 = ui_node.x1, !.y1 = ui_node.y1,
        !.x2 = ui_node.x2, !.y2 = ui_node.y2,
        !.width = ui_node.width, !.height = ui_node.height]

\* HybridUIParser._supplement_text_info
supplement_text_info(vh_node, ui_node) ==
    LET ui_text == ui_node.text
        ui_content_desc == ui_node.content_desc
        n1 == IF ui_content_desc # ""
              THEN [vh_node EXCEPT !.content_desc = ui_content_desc,
                                   !.text_source = "content-desc"]
              ELSE IF ui_text # ""
              THEN [vh_node EXCEPT !.content_desc = ui_text,
                                   !.text_source = "text"]
              ELSE vh_node
        n2 == [n1 EXCEPT !.text = ui_text]
        n3 == IF Truthy(ui_node.resource_id) /\ ~Truthy(n2.resource_id)
              THEN [n2 EXCEPT !.resource_id = ui_node.resource_id]
              ELSE n2
    IN  [n3 EXCEPT !.clickable = ui_node.clickable,
                   !.long_clickable = ui_node.long_clickable,
                   !.checkable = ui_node.checkable,
                   !.checked = ui_node.checked,
                   !.selected = ui_node.selected,
                   !.enabled = ui_node.enabled,
                   !.focusable = ui_node.focusable,
                   !.focused = ui_node.focused,
                   !.scrollable = ui_node.scrollable,
                   !.info_supplemented = "True",
                   !.text_matched = "True"]

\* HybridUIParser.get_statistics (match_rate, a formatted string, is left out)
get_statistics(matched, unmatched) ==
    [matched |-> matched, unmatched |-> unmatched, total |-> matched + unmatched]

\* ------------------------------------------------------------------------
\* Inputs: the raw sources handed over by the dump provider
\* ------------------------------------------------------------------------
MaxVhLines == 3
MaxUiNodes == 4
MaxMerges == 2

LinearLayoutClass == << <<"android">>, <<"widget">>, <<"Linear", "Layout">> >>
FrameLayoutClass == << <<"android">>, <<"widget">>, <<"Frame", "Layout">> >>
TextViewClass == << <<"android">>, <<"widget">>, <<"Text", "View">> >>
ViewClass == << <<"android">>, <<"view">>, <<"View">> >>

\* Pre-order depth sequences of n nodes: the first node has depth 0 and a
\* node lies at most one level below its predecessor.
RECURSIVE DepthSeqs(_, _)
DepthSeqs(n, minDepth) ==
    IF n = 1 THEN {<<0>>}
    ELSE UNION { {Append(d, k) : k \in minDepth..(Last(d) + 1)} :
                 d \in DepthSeqs(n - 1, minDepth) }

\* Parent index of node i under the depth sequence d (0: no parent).
ParentOf(d, i) ==
    LET above == {j \in 1..(i - 1) : d[j] = d[i] - 1}
    IN  IF above = {} THEN 0 ELSE CHOOSE j \in above : \A k \in above : k <= j

\* A widget that is not a layout holds no children: position i of the
\* depth sequence d may carry a leaf widget only when no node hangs below it.
IsLeafPos(d, i) == i = Len(d) \/ d[i + 1] <= d[i]

LeafOnly(cls) == cls \in {TextViewClass, ViewClass}

\* Widget lines of the geometry dump used for merging.
\* The bounds of the TextView line have their bottom above their top, as the
\* dump prints them for a widget clipped away by its parent.
VhProfiles ==
    { [cls |-> LinearLayoutClass, rid |-> <<"title">>,
       bounds |-> <<0, 0, 10, 10>>],
      [cls |-> TextViewClass, rid |-> <<>>,
       bounds |-> <<2, 12, 8, 4>>],
      [cls |-> FrameLayoutClass, rid |-> <<"content">>,
       bounds |-> <<0, 0, 10, 10>>] }

VhLine(depth, prof) ==
    [indent |-> 2 * depth + 2, blank |-> FALSE, cls |-> prof.cls,
     bounds |-> prof.bounds, rid |-> prof.rid,
     flagF |-> FALSE, flagE |-> TRUE, flagC |-> FALSE]

HeaderLine ==
    [indent |-> 0, blank |-> TRUE, cls |-> <<>>, bounds |-> <<>>, rid |-> <<>>,
     flagF |-> FALSE, flagE |-> FALSE, flagC |-> FALSE]

\* The dump of one window: a header line and the lines of one widget tree.
VhTexts ==
    UNION { { <<HeaderLine>> \o [i \in 1..Len(d) |-> VhLine(d[i], f[i])] :
              f \in {g \in [1..Len(d) -> VhProfiles] :
                        \A i \in 1..Len(d) :
                            LeafOnly(g[i].cls) => IsLeafPos(d, i)} } :
            d \in UNION {DepthSeqs(n, 1) : n \in 1..MaxVhLines} }

\* Elements of the attribute document.
UiProfiles ==
    { [class |-> LinearLayoutClass, resource_id |-> <<>>,
       text |-> "", content_desc |-> "", scrollable |-> "true",
       bounds |-> <<0, 0, 10, 10>>],
      [class |-> TextViewClass, resource_id |-> <<"com.app", ":id/", "title">>,
       text |-> "Hello", content_desc |-> "", scrollable |-> "true",
       bounds |-> <<2, 12, 8, 4>>],
      [class |-> FrameLayoutClass, resource_id |-> <<"android", ":id/", "content">>,
       text |-> "Caption", content_desc |-> "desc", scrollable |-> "false",
       bounds |-> <<0, 0, 10, 10>>] }

UiElem(prof, parent) ==
    [class |-> prof.class, resource_id |-> prof.resource_id,
     text |-> prof.text, content_desc |-> prof.content_desc,
     bounds |-> prof.bounds,
     clickable |-> "false", enabled |-> "true", focusable |-> "false",
     scrollable |-> prof.scrollable,
     focused |-> "false", long_clickable |-> "false", selected |-> "false",
     checkable |-> "false", checked |-> "false",
     parent |-> parent]

UiDocs ==
    UNION { { [wellformed |-> TRUE,
               elems |-> [i \in 1..Len(d) |-> UiElem(f[i], ParentOf(d, i))]] :
              f \in {g \in [1..Len(d) -> UiProfiles] :
                        \A i \in 1..Len(d) :
                            LeafOnly(g[i].class) => IsLeafPos(d, i)} } :
            d \in UNION {DepthSeqs(n, 1) : n \in 1..MaxUiNodes} }

MalformedDoc == [wellformed |-> FALSE, elems |-> <<>>]

\* A document cut off after its first element: ET.parse raises on it although
\* an element can be read before the error.
TruncatedDoc ==
    [wellformed |-> FALSE,
     elems |-> << UiElem([class |-> FrameLayoutClass,
                          resource_id |-> <<"android", ":id/", "content">>,
                          text |-> "Caption", content_desc |-> "desc",
                          scrollable |-> "false",
                          bounds |-> <<0, 0, 10, 10>>], 0) >>]

\* Attribute documents used for the queries: the strings are written
\* character by character, in mixed case; rectangles nest, tie in area,
\* are missing (the hierarchy element has no bounds) or are inside out.
MaxQueryNodes == 3

QueryProfiles ==
    { [class |-> <<>>, resource_id |-> <<>>, text |-> <<>>,
       content_desc |-> <<>>, scrollable |-> "false", bounds |-> <<>>],
      [class |-> <<"a", ".", "T", "b">>, resource_id |-> <<>>,
       text |-> <<"A", "b">>, content_desc |-> <<>>, scrollable |-> "false",
       bounds |-> <<0, 0, 4, 4>>],
      [class |-> <<"a", ".", "L">>, resource_id |-> <<"p", "/", "a", "B">>,
       text |-> <<>>, content_desc |-> <<>>, scrollable |-> "false",
       bounds |-> <<0, 0, 2, 8>>],
      [class |-> <<"a", ".", "L">>, resource_id |-> <<>>,
       text |-> <<>>, content_desc |-> <<"t", "A", "B">>,
       scrollable |-> "false", bounds |-> <<1, 1, 2, 2>>],
      [class |-> <<"a", ".", "L">>, resource_id |-> <<>>,
       text |-> <<"l">>, content_desc |-> <<>>,
       scrollable |-> "false", bounds |-> <<3, 3, 1, 1>>] }

QueryDocs ==
    UNION { { [wellformed |-> TRUE,
               elems |-> [i \in 1..Len(d) |-> UiElem(f[i], ParentOf(d, i))]] :
              f \in [1..Len(d) -> QueryProfiles] } :
            d \in UNION {DepthSeqs(n, 1) : n \in 1..MaxQueryNodes} }

\* The points clicked and the texts typed into the search field.
Coordinates == {0, 1, 3, 6}

SearchInputs ==
    { <<>>, <<"a", "b">>, <<"A", "B">>, <<"t">>, <<".", "l">>, <<"x">> }

\* Lines of the geometry dump used for the parser alone: free indents, blank
\* lines, lines without bounds, blocklisted ids and classes, empty and
\* one-dimensional rectangles, rectangles larger than their parent.
MaxParseLines == 3
MaxIndent == 2

IndicatorBarClass == << <<"android">>, <<"view">>, <<"Indicator", "Bar">> >>

ParseLineKinds ==
    { [cls |-> LinearLayoutClass, bounds |-> <<0, 0, 10, 10>>, rid |-> <<>>],
      [cls |-> LinearLayoutClass, bounds |-> <<2, 3, 30, 40>>, rid |-> <<>>],
      [cls |-> LinearLayoutClass, bounds |-> <<4, 4, 4, 4>>, rid |-> <<>>],
      [cls |-> LinearLayoutClass, bounds |-> <<5, 5, 5, 20>>, rid |-> <<>>],
      [cls |-> LinearLayoutClass, bounds |-> <<0, 0, 10, 10>>,
       rid |-> <<"statusBarBackground">>],
      [cls |-> IndicatorBarClass, bounds |-> <<0, 0, 10, 10>>, rid |-> <<>>],
      [cls |-> LinearLayoutClass, bounds |-> <<>>, rid |-> <<>>] }

DumpLine(indent, kind) ==
    [indent |-> indent, blank |-> FALSE, cls |-> kind.cls,
     bounds |-> kind.bounds, rid |-> kind.rid,
     flagF |-> FALSE, flagE |-> TRUE, flagC |-> FALSE]

ParseTexts ==
    UNION { [1..n -> {HeaderLine}
                     \cup {DumpLine(i, k) : i \in 0..MaxIndent, k \in ParseLineKinds}] :
            n \in 1..MaxParseLines }

\* ------------------------------------------------------------------------
\* State
\* ------------------------------------------------------------------------
VARIABLES
    hierarchy_text,     \* provider: [ok, lines], the geometry dump or None
    ui_file,            \* provider: [path, doc]; path is "None", "missing"
                        \* (no such file) or "file"
    hierarchy_data,     \* CarScreenMirrorTool.hierarchy_data
    vh_tree,            \* HybridUIParser.vh_tree, <<>> for None
    ui_tree,            \* HybridUIParser.ui_tree: index into ui_objs, 0 for None
    ui_objs,            \* the attribute trees built so far (Python objects)
    matched_count,      \* HybridUIParser.matched_count
    unmatched_count,    \* HybridUIParser.unmatched_count
    ui_node_map,        \* HybridUIParser.ui_node_map
    pc,                 \* "idle", "merging", "returned", "done", "parsing", "parsed"
    call_stack,         \* pending _match_and_merge calls, [vh_node, ui_context]
    vh_content,         \* merge_trees: start node in vh_tree
    ui_content,         \* merge_trees: start node in the attribute tree
    merge_result,       \* index in vh_tree of the node merge_trees returned, 0: None
    candidates,         \* _find_best_match: the list collected by the last call
    matched_ui,         \* _match_and_merge: what the last _find_best_match returned
    merges,             \* number of merge_trees calls that started a merge
    match_of,           \* this pass: geometry node |-> its matched attribute node
    ctx_of,             \* this pass: geometry node |-> the context it was given
    pass_start,         \* the counters when this pass began
    first_pass,         \* matched/unmatched of the first pass once it returned
    parser,             \* ViewHierarchyParser.parse: loop state
    line_no,            \* ViewHierarchyParser.parse: lines consumed
    fates,              \* what the loop did with each line consumed so far
    point,              \* onScreenClick: the last point clicked, <<x, y>>
    element,            \* onScreenClick: the node found there, 0 for None
    search_input,       \* searchElement: the text of the search field
    search_text,        \* searchElement: the last query, in lower case
    results             \* searchElement: the hits of the last search run

vars ==
    << hierarchy_text, ui_file, hierarchy_data, vh_tree, ui_tree, ui_objs,
       matched_count, unmatched_count, ui_node_map, pc, call_stack,
       vh_content, ui_content, merge_result, candidates, matched_ui, merges,
       match_of, ctx_of, pass_start, first_pass, parser, line_no, fates,
       point, element, search_input, search_text, results >>

\* The parts of the state that belong to the provider and to the geometry
\* parser run, and the bookkeeping of a merge pass.
inputVars == << hierarchy_text, ui_file >>
parseVars == << parser, line_no, fates >>
passVars == << call_stack, vh_content, ui_content, candidates, matched_ui,
               merges, match_of, ctx_of, pass_start >>
hybridVars == << vh_tree, ui_tree, ui_objs, matched_count, unmatched_count,
                 ui_node_map >>
queryVars == << point, element, search_input, search_text, results >>

\* Nothing was clicked or searched yet.
NoPoint == <<>>
NoSearch == <<"(none)">>

InitQuery ==
    /\ point = NoPoint
    /\ element = 0
    /\ search_input = NoSearch
    /\ search_text = NoSearch
    /\ results = <<>>

NoData == [kind |-> "None", tree |-> <<>>, root |-> 0]

\* HybridUIParser.__init__ and the quiescent values of the bookkeeping.
InitMerge ==
    /\ hierarchy_data = NoData
    /\ vh_tree = <<>>
    /\ ui_tree = 0
    /\ ui_objs = <<>>
    /\ matched_count = 0
    /\ unmatched_count = 0
    /\ ui_node_map = <<>>
    /\ call_stack = <<>>
    /\ vh_content = 0
    /\ ui_content = NoNode
    /\ merge_result = 0
    /\ candidates = <<>>
    /\ matched_ui = NoNode
    /\ merges = 0
    /\ match_of = <<>>
    /\ ctx_of = <<>>
    /\ pass_start = [matched |-> 0, unmatched |-> 0]
    /\ first_pass = [matched |-> 0, unmatched |-> 0]

Init ==
    /\ hierarchy_text \in {[ok |-> FALSE, lines |-> <<>>]}
                          \cup {[ok |-> TRUE, lines |-> t] : t \in VhTexts}
    /\ ui_file \in {[path |-> "None", doc |-> MalformedDoc],
                    [path |-> "missing", doc |-> MalformedDoc],
                    [path |-> "file", doc |-> MalformedDoc],
                    [path |-> "file", doc |-> TruncatedDoc]}
                   \cup {[path |-> "file", doc |-> x] : x \in UiDocs}
    /\ InitMerge
    /\ InitQuery
    /\ pc = "idle"
    /\ parser = ParserInit
    /\ line_no = 0
    /\ fates = <<>>

\* ------------------------------------------------------------------------
\* CarScreenMirrorTool._parseHybridMode and HybridUIParser.merge_trees
\* ------------------------------------------------------------------------
\* HybridUIParser.parse_view_hierarchy
parse_view_hierarchy(text) == to_ui_format(ParseFrom(ParserInit, text, 1).nodes)

\* not ui_file or not os.path.exists(ui_file)
UiFileMissing == ui_file.path \in {"None", "missing"}

\* Mutation of merge_trees: the whole tree is always used.
StartNode_whole_tree(t) == 1

\* merge_trees, lines 65-78: the content node of the tree, else its root.
StartNode(t) == IF find_content_node(t, 1) = 0 THEN 1 ELSE find_content_node(t, 1)

\* _parseHybridMode, lines 1388-1391: neither source could be fetched.
ParseHybridMode_NoData ==
    /\ pc = "idle"
    /\ ~hierarchy_text.ok /\ ui_file.path = "None"
    /\ hierarchy_data' = NoData
    /\ pc' = "done"
    /\ UNCHANGED << inputVars, queryVars,
                    parseVars, passVars, hybridVars, merge_result,
                    first_pass >>

\* _parseHybridMode, lines 1393-1397, with _parseUIAutomatorMode: no geometry
\* dump, the attribute tree alone becomes the hierarchy.
ParseHybridMode_UIAutomator ==
    /\ pc = "idle"
    /\ ~hierarchy_text.ok /\ ui_file.path # "None"
    /\ hierarchy_data' =
          IF ui_file.path = "file" /\ parse_ui_xml(ui_file.doc) # <<>>
          THEN [kind |-> "ui", tree |-> parse_ui_xml(ui_file.doc), root |-> 1]
          ELSE NoData
    /\ pc' = "done"
    /\ UNCHANGED << inputVars, queryVars,
                    parseVars, passVars, hybridVars, merge_result,
                    first_pass >>

\* _parseHybridMode, lines 1399-1403, with _parseViewHierarchyMode: no
\* attribute file, the geometry tree alone becomes the hierarchy.
ParseHybridMode_ViewHierarchy ==
    /\ pc = "idle"
    /\ hierarchy_text.ok /\ UiFileMissing
    /\ hierarchy_data' =
          IF ParseFrom(ParserInit, hierarchy_text.lines, 1).views # <<>>
          THEN [kind |-> "vh",
                tree |-> parse_view_hierarchy(hierarchy_text.lines),
                root |-> 1]
          ELSE NoData
    /\ pc' = "done"
    /\ UNCHANGED << inputVars, queryVars,
                    parseVars, passVars, hybridVars, merge_result,
                    first_pass >>

\* _parseHybridMode, lines 1410-1420, when merge_trees finds a tree missing
\* (the attribute document did not parse) and returns None.
ParseHybridMode_MergeRefused ==
    /\ pc = "idle"
    /\ hierarchy_text.ok /\ ~UiFileMissing
    /\ parse_ui_xml(ui_file.doc) = <<>>
    /\ vh_tree' = parse_view_hierarchy(hierarchy_text.lines)
    /\ ui_tree' = 0
    /\ merge_result' = 0
    /\ hierarchy_data' = NoData
    /\ pc' = "done"
    /\ UNCHANGED << inputVars, queryVars,
                    parseVars, passVars, ui_objs, matched_count,
                    unmatched_count, ui_node_map, first_pass >>

\* _parseHybridMode, lines 1410-1420, entering merge_trees with both trees:
\* a new HybridUIParser, both parses, the start nodes, the index and the
\* first _match_and_merge call.
ParseHybridMode_Merge ==
    /\ pc = "idle"
    /\ hierarchy_text.ok /\ ~UiFileMissing
    /\ parse_ui_xml(ui_file.doc) # <<>>
    /\ vh_tree' = parse_view_hierarchy(hierarchy_text.lines)
    /\ ui_objs' = <<parse_ui_xml(ui_file.doc)>>
    /\ ui_tree' = 1
    /\ matched_count' = 0
    /\ unmatched_count' = 0
    /\ vh_content' = StartNode(vh_tree')
    /\ ui_content' = <<ui_tree', StartNode(ui_objs'[ui_tree'])>>
    /\ ui_node_map' = build_ui_index(<<>>, ui_objs', ui_tree', ui_content'[2])
    /\ call_stack' = <<[vh_node |-> vh_content', ui_context |-> ui_content']>>
    /\ merges' = 1
    /\ match_of' = <<>>
    /\ ctx_of' = <<>>
    /\ pass_start' = [matched |-> 0, unmatched |-> 0]
    /\ pc' = "merging"
    /\ UNCHANGED << inputVars, queryVars,
                    parseVars, hierarchy_data, merge_result,
                    candidates, matched_ui, first_pass >>

\* Mutation of the recursion: the children search from the node the merge
\* started at.
ChildFrames_start_context(vh, v, ctx) ==
    [k \in 1..ChildCount(vh, v) |->
        [vh_node |-> Children(vh, v)[k], ui_context |-> ui_content]]

\* Mutation of the recursion: the children are given no context.
ChildFrames_no_context(vh, v, ctx) ==
    [k \in 1..ChildCount(vh, v) |->
        [vh_node |-> Children(vh, v)[k], ui_context |-> NoNode]]

\* The frames of the recursive calls on the children of geometry node v, all
\* with context ctx, first child on top.
ChildFrames(vh, v, ctx) ==
    [k \in 1..ChildCount(vh, v) |->
        [vh_node |-> Children(vh, v)[k], ui_context |-> ctx]]

FnPut(f, k, val) == [x \in DOMAIN f \cup {k} |-> IF x = k THEN val ELSE f[x]]

\* HybridUIParser._match_and_merge: the call on top of the stack runs up to
\* its recursive calls, which are pushed in its place.  _find_best_match
\* collects the candidates, accepts the best and marks it used.
match_and_merge ==
    /\ pc = "merging"
    /\ call_stack # <<>>
    /\ candidates' = collect_candidates(vh_tree, Head(call_stack).vh_node,
                         ui_objs, ui_node_map, Head(call_stack).ui_context)
    /\ matched_ui' = accept_best(candidates')
    /\ ui_objs' = IF matched_ui' # NoNode THEN mark_node_used(ui_objs, matched_ui')
                  ELSE ui_objs
    /\ match_of' = FnPut(match_of, Head(call_stack).vh_node, matched_ui')
    /\ ctx_of' = FnPut(ctx_of, Head(call_stack).vh_node, Head(call_stack).ui_context)
    /\ IF matched_ui' # NoNode
       THEN /\ matched_count' = matched_count + 1
            /\ unmatched_count' = unmatched_count
            /\ vh_tree' = [vh_tree EXCEPT ![Head(call_stack).vh_node] =
                              supplement_text_info(@,
                                  ui_objs[matched_ui'[1]][matched_ui'[2]])]
            /\ call_stack' = ChildFrames(vh_tree, Head(call_stack).vh_node, matched_ui')
                             \o Tail(call_stack)
       ELSE /\ matched_count' = matched_count
            /\ unmatched_count' = unmatched_count + 1
            /\ vh_tree' = [vh_tree EXCEPT
                              ![Head(call_stack).vh_node].text_matched = "False"]
            /\ call_stack' = ChildFrames(vh_tree, Head(call_stack).vh_node,
                                         Head(call_stack).ui_context)
                             \o Tail(call_stack)
    /\ UNCHANGED << inputVars, queryVars,
                    parseVars, hierarchy_data, ui_tree, ui_node_map,
                    pc, vh_content, ui_content, merge_result, merges,
                    pass_start, first_pass >>

\* Mutation of merge_trees: the root of the geometry tree is returned.
merge_trees_return_root ==
    /\ pc = "merging"
    /\ call_stack = <<>>
    /\ merge_result' = 1
    /\ hierarchy_data' = IF merges = 1
                         THEN [kind |-> "merged", tree |-> vh_tree, root |-> 1]
                         ELSE hierarchy_data
    /\ first_pass' = IF merges = 1
                     THEN [matched |-> matched_count, unmatched |-> unmatched_count]
                     ELSE first_pass
    /\ pc' = "returned"
    /\ UNCHANGED << inputVars, queryVars, parseVars, passVars, hybridVars >>

\* merge_trees returns vh_content; after the first merge _parseHybridMode
\* stores it as hierarchy_data.
merge_trees_return ==
    /\ pc = "merging"
    /\ call_stack = <<>>
    /\ merge_result' = vh_content
    /\ hierarchy_data' = IF merges = 1
                         THEN [kind |-> "merged", tree |-> vh_tree,
                               root |-> vh_content]
                         ELSE hierarchy_data
    /\ first_pass' = IF merges = 1
                     THEN [matched |-> matched_count, unmatched |-> unmatched_count]
                     ELSE first_pass
    /\ pc' = "returned"
    /\ UNCHANGED << inputVars, queryVars, parseVars, passVars, hybridVars >>

\* A client that keeps the HybridUIParser: parse_uiautomator on the same
\* file builds a new attribute tree, and merge_trees runs again on the same
\* parser and the same geometry tree.
merge_trees_again ==
    /\ pc = "returned"
    /\ merges < MaxMerges
    /\ ui_objs' = Append(ui_objs, parse_ui_xml(ui_file.doc))
    /\ ui_tree' = Len(ui_objs')
    /\ vh_content' = StartNode(vh_tree)
    /\ ui_content' = <<ui_tree', StartNode(ui_objs'[ui_tree'])>>
    /\ ui_node_map' = build_ui_index(ui_node_map, ui_objs', ui_tree', ui_content'[2])
    /\ call_stack' = <<[vh_node |-> vh_content', ui_context |-> ui_content']>>
    /\ merges' = merges + 1
    /\ match_of' = <<>>
    /\ ctx_of' = <<>>
    /\ pass_start' = [matched |-> matched_count, unmatched |-> unmatched_count]
    /\ pc' = "merging"
    /\ UNCHANGED << inputVars, queryVars, parseVars, hierarchy_data, vh_tree,
                    matched_count, unmatched_count, merge_result, candidates,
                    matched_ui, first_pass >>

Next ==
    \/ ParseHybridMode_NoData
    \/ ParseHybridMode_UIAutomator
    \/ ParseHybridMode_ViewHierarchy
    \/ ParseHybridMode_MergeRefused
    \/ ParseHybridMode_Merge
    \/ match_and_merge
    \/ merge_trees_return
    \/ merge_trees_again

Spec == Init /\ [][Next]_vars

\* ------------------------------------------------------------------------
\* ViewHierarchyParser.parse, one line at a time
\* ------------------------------------------------------------------------
InitParse ==
    /\ hierarchy_text \in {[ok |-> TRUE, lines |-> t] : t \in ParseTexts}
    /\ ui_file = [path |-> "None", doc |-> MalformedDoc]
    /\ InitMerge
    /\ InitQuery
    /\ pc = "parsing"
    /\ parser = ParserInit
    /\ line_no = 0
    /\ fates = <<>>

\* One iteration of the for loop of ViewHierarchyParser.parse.
parse ==
    /\ pc = "parsing"
    /\ line_no < Len(hierarchy_text.lines)
    /\ line_no' = line_no + 1
    /\ parser' = ParseLoopBody(parser, hierarchy_text.lines[line_no'], line_no')
    /\ fates' = Append(fates, parser'.last)
    /\ UNCHANGED << inputVars, queryVars,
                    passVars, hybridVars, hierarchy_data, pc,
                    merge_result, first_pass >>

\* The loop is over: HybridUIParser.parse_view_hierarchy stores the result
\* of to_ui_format.
parse_view_hierarchy_return ==
    /\ pc = "parsing"
    /\ line_no = Len(hierarchy_text.lines)
    /\ vh_tree' = to_ui_format(parser.nodes)
    /\ pc' = "parsed"
    /\ UNCHANGED << inputVars, queryVars,
                    parseVars, passVars, hierarchy_data, ui_tree,
                    ui_objs, matched_count, unmatched_count, ui_node_map,
                    merge_result, first_pass >>

NextParse ==
    \/ parse
    \/ parse_view_hierarchy_return

SpecParse == InitParse /\ [][NextParse]_vars

\* ------------------------------------------------------------------------
\* CarScreenMirrorTool: queries on the hierarchy shown
\* ------------------------------------------------------------------------
InitQueries ==
    /\ hierarchy_text = [ok |-> FALSE, lines |-> <<>>]
    /\ ui_file \in {[path |-> "file", doc |-> MalformedDoc]}
                   \cup {[path |-> "file", doc |-> x] : x \in QueryDocs}
    /\ InitMerge
    /\ InitQuery
    /\ pc = "idle"
    /\ parser = ParserInit
    /\ line_no = 0
    /\ fates = <<>>

\* CarScreenMirrorTool.onScreenClick(x, y)
onScreenClick ==
    /\ pc = "done"
    /\ \E x, y \in Coordinates :
          /\ point' = <<x, y>>
          /\ element' = IF hierarchy_data.tree # <<>>
                        THEN find_element_at_point(hierarchy_data, x, y)
                        ELSE 0
    /\ UNCHANGED << inputVars, parseVars, passVars, hybridVars, hierarchy_data,
                    pc, merge_result, first_pass,
                    search_input, search_text, results >>

\* CarScreenMirrorTool.searchElement with the text of the search field: an
\* empty text, or no hierarchy, returns before the list of results is made.
searchElement ==
    /\ pc = "done"
    /\ \E input \in SearchInputs :
          /\ search_input' = input
          /\ search_text' = Lower(input)
          /\ results' = IF search_text' = <<>> \/ hierarchy_data.tree = <<>>
                        THEN <<>>
                        ELSE searchInNode(hierarchy_data.tree,
                                          hierarchy_data.root, search_text')
    /\ UNCHANGED << inputVars, parseVars, passVars, hybridVars, hierarchy_data,
                    pc, merge_result, first_pass, point, element >>

NextQueries ==
    \/ ParseHybridMode_UIAutomator
    \/ onScreenClick
    \/ searchElement

SpecQueries == InitQueries /\ [][NextQueries]_vars

\* ------------------------------------------------------------------------
\* Properties
\* ------------------------------------------------------------------------
\* The call of _match_and_merge on top of the stack is about to run.
CallPending == pc = "merging" /\ call_stack # <<>>

\* The score of _calculate_match_score in exact arithmetic, in units of
\* 1/2400: 0.4 is 960, 0.3 is 720, 0.2 is 480, 0.15 is 360, 0.5 is 1200.
ExactScore(vh, v, objs, ref, has_same_id) ==
    (IF has_same_id THEN 960 ELSE 0)
    + (IF LastSegment(vh[v].class) = LastSegment(objs[ref[1]][ref[2]].class)
       THEN 720
       ELSE IF similar_class_names(LastSegment(vh[v].class),
                                   LastSegment(objs[ref[1]][ref[2]].class))
       THEN 480 ELSE 0)
    + (IF ChildCount(vh, v) = ChildCount(objs[ref[1]], ref[2]) THEN 360
       ELSE IF ChildCount(vh, v) > 0 /\ ChildCount(objs[ref[1]], ref[2]) > 0
       THEN (360 * Min2(ChildCount(vh, v), ChildCount(objs[ref[1]], ref[2])))
            \div Max2(ChildCount(vh, v), ChildCount(objs[ref[1]], ref[2]))
       ELSE 0)
    + 90 * AttrAgree(vh[v], objs[ref[1]][ref[2]])

\* The positions of a candidate list that hold its highest score.
TopScored(c) ==
    {k \in 1..Len(c) : \A j \in 1..Len(c) : FGeq(c[k][2], c[j][2])}

\* C1: within one merge pass no attribute node is the match of two geometry
\* nodes: any two distinct geometry nodes that are matched in the pass are
\* matched to distinct attribute nodes.
C1_NoAttributeNodeMatchedTwice ==
    \A v, w \in DOMAIN match_of :
        (v # w /\ match_of[v] # NoNode /\ match_of[w] # NoNode)
            => match_of[v] # match_of[w]

\* Two geometry nodes are matched in the pass, and the index lists the match
\* of the first under the id of the second, which was processed later.
C1_Witness ==
    \E v, w \in DOMAIN match_of :
        /\ v < w
        /\ match_of[v] # NoNode /\ match_of[w] # NoNode
        /\ extract_id_suffix(vh_tree[w].resource_id) \in DOMAIN ui_node_map
        /\ \E k \in 1..Len(ui_node_map[extract_id_suffix(vh_tree[w].resource_id)]) :
              ui_node_map[extract_id_suffix(vh_tree[w].resource_id)][k] = match_of[v]

\* C2: whenever merge_trees has returned from a merge, also a second one on
\* the same HybridUIParser, matched + unmatched = total = the number of nodes
\* of the geometry subtree the merge started from.
C2_Conservation ==
    pc = "returned"
        => /\ get_statistics(matched_count, unmatched_count).total
                = matched_count + unmatched_count
           /\ get_statistics(matched_count, unmatched_count).total
                = Len(Subtree(vh_tree, vh_content))

\* The geometry dump was fetched; the attribute document exists and parses.
VhAvailable == hierarchy_text.ok
UiAvailable == ui_file.path = "file" /\ ui_file.doc.wellformed

\* C3: when exactly one of the two trees is available the result is that
\* tree, unchanged, with nothing matched; the result is empty only when
\* neither tree is available.
C3_Passthrough ==
    pc = "done"
        => /\ (VhAvailable /\ ~UiAvailable)
                => /\ hierarchy_data.kind = "vh"
                   /\ hierarchy_data.tree = parse_view_hierarchy(hierarchy_text.lines)
                   /\ matched_count = 0
           /\ (UiAvailable /\ ~VhAvailable)
                => /\ hierarchy_data.kind = "ui"
                   /\ hierarchy_data.tree = parse_ui_xml(ui_file.doc)
                   /\ matched_count = 0
           /\ hierarchy_data = NoData => (~VhAvailable /\ ~UiAvailable)

\* C4: _find_best_match returns a match exactly when some collected
\* candidate scores at least 0.5, the match is a candidate of highest score,
\* and when it returns no match it reserves no attribute node.
C4_MatchOnlyAtThreshold ==
    [][CallPending =>
        /\ (matched_ui' # NoNode)
             <=> (\E k \in 1..Len(candidates') :
                    ExactScore(vh_tree, Head(call_stack).vh_node, ui_objs,
                        candidates'[k][1],
                        k <= Len(id_candidates(vh_tree, Head(call_stack).vh_node,
                                               ui_objs, ui_node_map))) >= 1200)
        /\ (matched_ui' # NoNode)
             => \E k \in TopScored(candidates') : candidates'[k][1] = matched_ui'
        /\ (matched_ui' = NoNode) => ui_objs' = ui_objs]_vars

\* The last call collected candidates, none reached the threshold, and it
\* returned no match.
C4_Witness ==
    /\ candidates # <<>>
    /\ matched_ui = NoNode
    /\ \E v \in DOMAIN match_of : match_of[v] = NoNode

\* C5 (amended): when candidates share the highest score, the one collected
\* first is selected: the candidates found by id lookup come first, in the
\* order of the index, then those of the proximity walk in pre-order of the
\* context subtree.
C5_TieGoesToFirstCollected ==
    [][(CallPending /\ matched_ui' # NoNode) =>
        /\ \A j \in TopScored(candidates') :
              (\A i \in TopScored(candidates') : j <= i)
                  => matched_ui' = candidates'[j][1]
        /\ \A j, k \in 1..Len(candidates') :
              (/\ j < k
               /\ j > Len(id_candidates(vh_tree, Head(call_stack).vh_node,
                                        ui_objs, ui_node_map)))
                  => /\ candidates'[j][1][1] = candidates'[k][1][1]
                     /\ candidates'[j][1][2] < candidates'[k][1][2]
        /\ \A k \in 1..Len(id_candidates(vh_tree, Head(call_stack).vh_node,
                                         ui_objs, ui_node_map)) :
              extract_id_suffix(
                  ui_objs[candidates'[k][1][1]][candidates'[k][1][2]].resource_id)
                = extract_id_suffix(vh_tree[Head(call_stack).vh_node].resource_id)]_vars

\* The last call matched a candidate that ties for the highest score with a
\* candidate of the same tree that precedes it in pre-order.
C5_Witness ==
    /\ matched_ui # NoNode
    /\ \E j, k \in TopScored(candidates) :
          /\ j < k
          /\ candidates[j][1] = matched_ui
          /\ candidates[k][1][1] = matched_ui[1]
          /\ candidates[k][1][2] < matched_ui[2]

\* C5 as stated: among the candidates that share the highest score the one
\* selected is the first in the attribute tree's pre-order, however each was
\* found.
C5_TieGoesToPreorderFirst ==
    [][(CallPending /\ matched_ui' # NoNode) =>
        \A k \in TopScored(candidates') :
            candidates'[k][1][1] = matched_ui'[1]
                => matched_ui'[2] <= candidates'[k][1][2]]_vars

\* The geometry parser: line j of the dump yields a class and bounds; a node
\* was kept for it; every line after j up to s lies deeper than j.
WellFormed(j) ==
    /\ ~hierarchy_text.lines[j].blank
    /\ parse_line(hierarchy_text.lines[j]).ok

Kept(j) == \E i \in 1..Len(parser.nodes) : parser.nodes[i].src = j

Covered(j, s) ==
    \A k \in (j + 1)..s :
        \/ hierarchy_text.lines[k].blank
        \/ hierarchy_text.lines[k].indent > hierarchy_text.lines[j].indent

RelWidth(j) == hierarchy_text.lines[j].bounds[3] - hierarchy_text.lines[j].bounds[1]
RelHeight(j) == hierarchy_text.lines[j].bounds[4] - hierarchy_text.lines[j].bounds[2]

\* What the loop does with a line it parses.
NormalFate(line) ==
    IF ~parse_line(line).ok THEN "malformed"
    ELSE IF should_filter(parse_line(line)) THEN "filtered"
    ELSE "kept"

\* C6 (amended): a kept child's absolute bounds are its relative bounds moved
\* by the absolute origin of its parent, so the parent's left and top never
\* exceed the child's; the child's right and bottom stay inside the parent
\* exactly when its relative right and bottom do not exceed the parent's
\* width and height; under the synthetic root the absolute bounds are the
\* relative ones.
C6_ChildBoundsFollowParentOrigin ==
    pc = "parsed" =>
        \A c \in 1..Len(vh_tree) :
            vh_tree[c].parent # 0 =>
                /\ vh_tree[vh_tree[c].parent].x1 <= vh_tree[c].x1
                /\ vh_tree[vh_tree[c].parent].y1 <= vh_tree[c].y1
                /\ vh_tree[vh_tree[c].parent].src # 0 =>
                      /\ vh_tree[c].absolute_bounds =
                            calculate_absolute_bounds(
                                vh_tree[vh_tree[c].parent].absolute_bounds,
                                hierarchy_text.lines[vh_tree[c].src].bounds)
                      /\ (vh_tree[c].x2 <= vh_tree[vh_tree[c].parent].x2)
                            <=> (hierarchy_text.lines[vh_tree[c].src].bounds[3]
                                    <= vh_tree[vh_tree[c].parent].width)
                      /\ (vh_tree[c].y2 <= vh_tree[vh_tree[c].parent].y2)
                            <=> (hierarchy_text.lines[vh_tree[c].src].bounds[4]
                                    <= vh_tree[vh_tree[c].parent].height)
                /\ vh_tree[vh_tree[c].parent].src = 0 =>
                      vh_tree[c].absolute_bounds
                         = hierarchy_text.lines[vh_tree[c].src].bounds

\* A kept child of a kept parent with a non-zero origin reaches beyond the
\* parent's right edge.
C6_Witness ==
    /\ pc = "parsed"
    /\ \E c \in 1..Len(vh_tree) :
          /\ vh_tree[c].parent # 0
          /\ vh_tree[vh_tree[c].parent].src # 0
          /\ vh_tree[vh_tree[c].parent].x1 > 0
          /\ vh_tree[c].x1 > vh_tree[vh_tree[c].parent].x1
          /\ vh_tree[c].x2 > vh_tree[vh_tree[c].parent].x2

\* C6 as stated: the absolute bounds of every kept node contain the absolute
\* bounds of each of its children.
C6_ParentContainsChild ==
    pc = "parsed" =>
        \A c \in 1..Len(vh_tree) :
            vh_tree[c].parent # 0 =>
                /\ vh_tree[vh_tree[c].parent].x1 <= vh_tree[c].x1
                /\ vh_tree[vh_tree[c].parent].y1 <= vh_tree[c].y1
                /\ vh_tree[c].x2 <= vh_tree[vh_tree[c].parent].x2
                /\ vh_tree[c].y2 <= vh_tree[vh_tree[c].parent].y2

\* C7 (amended): a line whose relative bounds are 0x0 (width = 0 and
\* height = 0) is dropped with its whole subtree; a line with only one zero
\* dimension that nothing else filters or skips is kept.
C7_ZeroByZeroDropped ==
    \A j \in 1..line_no :
        WellFormed(j) =>
            /\ (RelWidth(j) = 0 /\ RelHeight(j) = 0)
                  => /\ ~Kept(j)
                     /\ \A s \in (j + 1)..line_no : Covered(j, s) => ~Kept(s)
            /\ (/\ (RelWidth(j) = 0) # (RelHeight(j) = 0)
                /\ hierarchy_text.lines[j].rid = <<>>
                /\ hierarchy_text.lines[j].cls \notin FILTER_CLASSES
                /\ fates[j] # "skipped")
                  => Kept(j)

\* A 0x0 line was followed by a deeper line that would be kept on its own,
\* and a line of zero width and positive height was kept.
C7_Witness ==
    /\ \E j \in 1..line_no :
          /\ WellFormed(j)
          /\ RelWidth(j) = 0 /\ RelHeight(j) = 0
          /\ fates[j] = "filtered"
          /\ j < line_no
          /\ Covered(j, j + 1)
          /\ ~hierarchy_text.lines[j + 1].blank
          /\ NormalFate(hierarchy_text.lines[j + 1]) = "kept"
    /\ \E j \in 1..line_no :
          WellFormed(j) /\ RelWidth(j) = 0 /\ RelHeight(j) > 0 /\ Kept(j)

\* C7 as stated: no line whose relative bounds have zero area (width = 0 or
\* height = 0) is kept.
C7_ZeroAreaDropped ==
    \A j \in 1..line_no :
        (WellFormed(j) /\ (RelWidth(j) = 0 \/ RelHeight(j) = 0)) => ~Kept(j)

\* C8: a filtered line is not in the tree, nor is any following line deeper
\* than it up to the first following line that is not deeper; that line is
\* processed normally: parsed, and kept unless it is malformed or filtered
\* itself.
C8_FilteredSubtreeSkipped ==
    \A j \in 1..line_no :
        fates[j] \in {"filtered", "filtered_abs"} =>
            /\ ~Kept(j)
            /\ \A s \in (j + 1)..line_no :
                  IF Covered(j, s)
                  THEN ~Kept(s) /\ fates[s] \in {"blank", "skipped"}
                  ELSE Covered(j, s - 1) =>
                          /\ fates[s] = NormalFate(hierarchy_text.lines[s])
                          /\ Kept(s) <=> (fates[s] = "kept")

\* A line was filtered, the next line lay deeper and was skipped, and the
\* line after it, at the indent of the filtered line, was kept.
C8_Witness ==
    \E j \in 1..line_no :
        /\ fates[j] = "filtered"
        /\ j + 2 <= line_no
        /\ fates[j + 1] = "skipped"
        /\ hierarchy_text.lines[j + 2].indent = hierarchy_text.lines[j].indent
        /\ Kept(j + 2)

\* C9: processing a line that does not yield both a class and bounds leaves
\* the ancestor stack and the subtree-skip marker as they were.
C9_MalformedLineLeavesState ==
    [][(pc = "parsing" /\ line_no' = line_no + 1 /\ parser'.last = "malformed")
        => /\ parser'.parent_stack = parser.parent_stack
           /\ parser'.nodes_stack = parser.nodes_stack
           /\ parser'.skip_children_until_indent
                = parser.skip_children_until_indent]_vars

\* C10: two merges of the same geometry tree, the second against a newly
\* built attribute tree of the same content, count the same numbers of
\* matched and unmatched nodes.
C10_SameCountsBothMerges ==
    (pc = "returned" /\ merges = 2)
        => /\ matched_count - pass_start.matched = first_pass.matched
           /\ unmatched_count - pass_start.unmatched = first_pass.unmatched

\* The calls that replace the call on top of the stack in this step are the
\* calls on the children of its geometry node, in order, all with context
\* ctx; the calls below it are untouched.
ChildrenCalledWith(ctx) ==
    /\ Len(call_stack')
         = Len(call_stack) - 1 + ChildCount(vh_tree, Head(call_stack).vh_node)
    /\ \A k \in 1..ChildCount(vh_tree, Head(call_stack).vh_node) :
          /\ call_stack'[k].vh_node
               = Children(vh_tree, Head(call_stack).vh_node)[k]
          /\ call_stack'[k].ui_context = ctx
    /\ \A k \in 1..(Len(call_stack) - 1) :
          call_stack'[ChildCount(vh_tree, Head(call_stack).vh_node) + k]
            = call_stack[k + 1]

\* C11: when a geometry node has no match it is marked unmatched, the
\* unmatched counter grows by exactly one (the matched counter does not
\* move), no attribute node is reserved, and each of its children is merged
\* with the context the node itself was given.
C11_UnmatchedKeepsContext ==
    [][(CallPending /\ matched_ui' = NoNode) =>
        /\ vh_tree'[Head(call_stack).vh_node].text_matched = "False"
        /\ unmatched_count' = unmatched_count + 1
        /\ matched_count' = matched_count
        /\ ui_objs' = ui_objs
        /\ ChildrenCalledWith(Head(call_stack).ui_context)]_vars

\* An unmatched geometry node that was searched from a context other than
\* the start node of the merge has a child, and the child was searched from
\* the same context.
C11_Witness ==
    \E n, c \in DOMAIN match_of :
        /\ vh_tree[c].parent = n
        /\ match_of[n] = NoNode
        /\ vh_tree[n].text_matched = "False"
        /\ ctx_of[n] # ui_content
        /\ ctx_of[c] = ctx_of[n]

\* C12: when a geometry node is matched the matched counter grows by exactly
\* one (the unmatched counter does not move) and each of its children is
\* merged with the matched attribute node as its context.
C12_MatchedBecomesContext ==
    [][(CallPending /\ matched_ui' # NoNode) =>
        /\ matched_count' = matched_count + 1
        /\ unmatched_count' = unmatched_count
        /\ ChildrenCalledWith(matched_ui')]_vars

\* A geometry node was matched to a node other than its own context, and its
\* child was searched from the matched node.
C12_Witness ==
    \E n, c \in DOMAIN match_of :
        /\ vh_tree[c].parent = n
        /\ match_of[n] # NoNode
        /\ match_of[n] # ctx_of[n]
        /\ ctx_of[c] = match_of[n]

\* C13: on a match the geometry node's text becomes the matched node's text;
\* its content-desc becomes the matched node's content-desc when that is not
\* empty (text_source "content-desc"), else the matched node's text when
\* that is not empty (text_source "text"); when both are empty content-desc
\* and text_source stay as they were.
C13_TextSupplement ==
    [][(CallPending /\ matched_ui' # NoNode) =>
        /\ vh_tree'[Head(call_stack).vh_node].text
             = ui_objs[matched_ui'[1]][matched_ui'[2]].text
        /\ ui_objs[matched_ui'[1]][matched_ui'[2]].content_desc # ""
             => /\ vh_tree'[Head(call_stack).vh_node].content_desc
                     = ui_objs[matched_ui'[1]][matched_ui'[2]].content_desc
                /\ vh_tree'[Head(call_stack).vh_node].text_source = "content-desc"
        /\ (/\ ui_objs[matched_ui'[1]][matched_ui'[2]].content_desc = ""
            /\ ui_objs[matched_ui'[1]][matched_ui'[2]].text # "")
             => /\ vh_tree'[Head(call_stack).vh_node].content_desc
                     = ui_objs[matched_ui'[1]][matched_ui'[2]].text
                /\ vh_tree'[Head(call_stack).vh_node].text_source = "text"
        /\ (/\ ui_objs[matched_ui'[1]][matched_ui'[2]].content_desc = ""
            /\ ui_objs[matched_ui'[1]][matched_ui'[2]].text = "")
             => /\ vh_tree'[Head(call_stack).vh_node].content_desc
                     = vh_tree[Head(call_stack).vh_node].content_desc
                /\ vh_tree'[Head(call_stack).vh_node].text_source
                     = vh_tree[Head(call_stack).vh_node].text_source]_vars

\* A geometry node matched to a node that carries both a text and a
\* content description took the description; another one, matched to a node
\* with a text only, took the text.
C13_Witness ==
    /\ \E n \in DOMAIN match_of :
          /\ match_of[n] # NoNode
          /\ ui_objs[match_of[n][1]][match_of[n][2]].text = "Caption"
          /\ vh_tree[n].text = "Caption"
          /\ vh_tree[n].content_desc = "desc"
          /\ vh_tree[n].text_source = "content-desc"
    /\ \E n \in DOMAIN match_of :
          /\ match_of[n] # NoNode
          /\ vh_tree[n].text = "Hello"
          /\ vh_tree[n].content_desc = "Hello"
          /\ vh_tree[n].text_source = "text"

\* C14: on a match the geometry node's resource id is replaced by the
\* matched node's only if its own is empty; a geometry node with a resource
\* id keeps it through the merge.
C14_ResourceIdOnlyIfEmpty ==
    [][(CallPending /\ matched_ui' # NoNode) =>
        IF vh_tree[Head(call_stack).vh_node].resource_id # <<>>
        THEN vh_tree'[Head(call_stack).vh_node].resource_id
               = vh_tree[Head(call_stack).vh_node].resource_id
        ELSE vh_tree'[Head(call_stack).vh_node].resource_id
               = ui_objs[matched_ui'[1]][matched_ui'[2]].resource_id]_vars

\* One geometry node without a resource id took the id of its match, and
\* one with a resource id kept it although its match carries another.
C14_Witness ==
    /\ \E n \in DOMAIN match_of :
          /\ match_of[n] # NoNode
          /\ parse_view_hierarchy(hierarchy_text.lines)[n].resource_id = <<>>
          /\ vh_tree[n].resource_id # <<>>
          /\ vh_tree[n].resource_id
               = ui_objs[match_of[n][1]][match_of[n][2]].resource_id
    /\ \E n \in DOMAIN match_of :
          /\ match_of[n] # NoNode
          /\ parse_view_hierarchy(hierarchy_text.lines)[n].resource_id # <<>>
          /\ ui_objs[match_of[n][1]][match_of[n][2]].resource_id # <<>>
          /\ vh_tree[n].resource_id
               # ui_objs[match_of[n][1]][match_of[n][2]].resource_id

\* Node i of tree t is the first node in pre-order whose resource id names
\* "content", or the root when the tree has no such node.
FirstContentOrRoot(t, i) ==
    /\ i \in 1..Len(t)
    /\ \A j \in 1..(i - 1) : ~IsContentId(t[j].resource_id)
    /\ \/ IsContentId(t[i].resource_id)
       \/ i = 1 /\ \A j \in 1..Len(t) : ~IsContentId(t[j].resource_id)

\* C15: when a merge starts, the start node of each tree is the first node
\* in that tree's pre-order whose resource id contains "content", or the
\* tree's root when there is none, each tree on its own; the first
\* _match_and_merge call gets both start nodes.
C15_StartAtContentAnchors ==
    [][(pc # "merging" /\ pc' = "merging") =>
        /\ FirstContentOrRoot(vh_tree', vh_content')
        /\ ui_content'[1] = ui_tree'
        /\ FirstContentOrRoot(ui_objs'[ui_tree'], ui_content'[2])
        /\ call_stack' = <<[vh_node |-> vh_content', ui_context |-> ui_content']>>]_vars

\* A merge has just started at an anchor below the root in both trees.
C15_Witness ==
    /\ pc = "merging"
    /\ match_of = <<>>
    /\ vh_content > 1
    /\ ui_content[2] > 1
    /\ IsContentId(vh_tree[vh_content].resource_id)
    /\ IsContentId(ui_objs[ui_content[1]][ui_content[2]].resource_id)
    /\ call_stack = <<[vh_node |-> vh_content, ui_context |-> ui_content]>>

\* C16: a kept geometry node with a kept parent has the absolute bounds
\* (px1 + l, py1 + t, px1 + r, py1 + b), where (px1, py1) is the parent's
\* absolute origin and (l, t, r, b) are the relative bounds on the node's
\* line; a top-level node's absolute bounds are its relative bounds.
C16_AbsoluteBoundsFormula ==
    pc = "parsed" =>
        \A c \in 1..Len(vh_tree) :
            vh_tree[c].src # 0 =>
                IF vh_tree[c].parent # 0 /\ vh_tree[vh_tree[c].parent].src # 0
                THEN /\ vh_tree[c].x1 = vh_tree[vh_tree[c].parent].x1
                                        + hierarchy_text.lines[vh_tree[c].src].bounds[1]
                     /\ vh_tree[c].y1 = vh_tree[vh_tree[c].parent].y1
                                        + hierarchy_text.lines[vh_tree[c].src].bounds[2]
                     /\ vh_tree[c].x2 = vh_tree[vh_tree[c].parent].x1
                                        + hierarchy_text.lines[vh_tree[c].src].bounds[3]
                     /\ vh_tree[c].y2 = vh_tree[vh_tree[c].parent].y1
                                        + hierarchy_text.lines[vh_tree[c].src].bounds[4]
                ELSE /\ vh_tree[c].x1 = hierarchy_text.lines[vh_tree[c].src].bounds[1]
                     /\ vh_tree[c].y1 = hierarchy_text.lines[vh_tree[c].src].bounds[2]
                     /\ vh_tree[c].x2 = hierarchy_text.lines[vh_tree[c].src].bounds[3]
                     /\ vh_tree[c].y2 = hierarchy_text.lines[vh_tree[c].src].bounds[4]

\* A line with the relative bounds 2,3-30,40 was kept two levels below a
\* top-level line with the same relative bounds: its absolute bounds are
\* (6,9)-(34,46), under a parent at (4,6)-(32,43).
C16_Witness ==
    /\ pc = "parsed"
    /\ \E c \in 1..Len(vh_tree) :
          /\ vh_tree[c].src # 0
          /\ vh_tree[c].parent # 0
          /\ hierarchy_text.lines[vh_tree[c].src].bounds = <<2, 3, 30, 40>>
          /\ <<vh_tree[vh_tree[c].parent].x1, vh_tree[vh_tree[c].parent].y1,
               vh_tree[vh_tree[c].parent].x2, vh_tree[vh_tree[c].parent].y2>>
                = <<4, 6, 32, 43>>
          /\ <<vh_tree[c].x1, vh_tree[c].y1, vh_tree[c].x2, vh_tree[c].y2>>
                = <<6, 9, 34, 46>>

\* C17 (amended): every node that carries geometry has width = x2 - x1 and
\* height = y2 - y1, which for a geometry node is right - left and
\* bottom - top of its line of the dump and for an attribute node third minus
\* first and fourth minus second number of its bounds attribute: the width
\* (height) is negative whenever the source prints a right (bottom) smaller
\* than the left (top).
C17_SizeIsDifference ==
    /\ \A c \in 1..Len(vh_tree) :
          /\ vh_tree[c].width = vh_tree[c].x2 - vh_tree[c].x1
          /\ vh_tree[c].height = vh_tree[c].y2 - vh_tree[c].y1
          /\ vh_tree[c].src # 0 =>
                /\ vh_tree[c].width = hierarchy_text.lines[vh_tree[c].src].bounds[3]
                                      - hierarchy_text.lines[vh_tree[c].src].bounds[1]
                /\ vh_tree[c].height = hierarchy_text.lines[vh_tree[c].src].bounds[4]
                                       - hierarchy_text.lines[vh_tree[c].src].bounds[2]
    /\ \A o \in 1..Len(ui_objs) : \A i \in 1..Len(ui_objs[o]) :
          ui_objs[o][i].has_geometry =>
                /\ ui_objs[o][i].width = ui_objs[o][i].x2 - ui_objs[o][i].x1
                /\ ui_objs[o][i].height = ui_objs[o][i].y2 - ui_objs[o][i].y1
                /\ ui_objs[o][i].width = ui_file.doc.elems[i].bounds[3]
                                         - ui_file.doc.elems[i].bounds[1]
                /\ ui_objs[o][i].height = ui_file.doc.elems[i].bounds[4]
                                          - ui_file.doc.elems[i].bounds[2]

\* Both trees hold a node whose source prints the bottom above the top: the
\* height of each is negative.
C17_Witness ==
    /\ \E c \in 1..Len(vh_tree) :
          /\ vh_tree[c].src # 0
          /\ hierarchy_text.lines[vh_tree[c].src].bounds[4]
                < hierarchy_text.lines[vh_tree[c].src].bounds[2]
          /\ vh_tree[c].height < 0
    /\ \E o \in 1..Len(ui_objs) : \E i \in 1..Len(ui_objs[o]) :
          /\ ui_objs[o][i].has_geometry
          /\ ui_file.doc.elems[i].bounds[4] < ui_file.doc.elems[i].bounds[2]
          /\ ui_objs[o][i].height < 0

\* C17 as stated: every node that carries geometry, in the geometry tree or
\* in an attribute tree, has width = x2 - x1 >= 0 and height = y2 - y1 >= 0.
C17_NonNegativeSize ==
    /\ \A c \in 1..Len(vh_tree) :
          /\ vh_tree[c].width = vh_tree[c].x2 - vh_tree[c].x1
          /\ vh_tree[c].width >= 0
          /\ vh_tree[c].height = vh_tree[c].y2 - vh_tree[c].y1
          /\ vh_tree[c].height >= 0
    /\ \A o \in 1..Len(ui_objs) : \A i \in 1..Len(ui_objs[o]) :
          ui_objs[o][i].has_geometry =>
                /\ ui_objs[o][i].width = ui_objs[o][i].x2 - ui_objs[o][i].x1
                /\ ui_objs[o][i].width >= 0
                /\ ui_objs[o][i].height = ui_objs[o][i].y2 - ui_objs[o][i].y1
                /\ ui_objs[o][i].height >= 0

\* C18: for every node the geometry parser produces, parsing its bounds
\* string "[x1,y1][x2,y2]" by the attribute parser's rule (the four groups
\* of digits, in order) gives the node's x1, y1, x2, y2 again.
C18_BoundsRoundTrip ==
    \A c \in 1..Len(vh_tree) :
        /\ Len(findall_digits(vh_tree[c].bounds)) = 4
        /\ parse_node([vh_tree[c] EXCEPT !.bounds = findall_digits(@)]).x1
              = vh_tree[c].x1
        /\ parse_node([vh_tree[c] EXCEPT !.bounds = findall_digits(@)]).y1
              = vh_tree[c].y1
        /\ parse_node([vh_tree[c] EXCEPT !.bounds = findall_digits(@)]).x2
              = vh_tree[c].x2
        /\ parse_node([vh_tree[c] EXCEPT !.bounds = findall_digits(@)]).y2
              = vh_tree[c].y2

\* A node with the bounds string "[4,6][32,43]" was produced and reads back
\* as 4, 6, 32, 43.
C18_Witness ==
    /\ pc = "parsed"
    /\ \E c \in 1..Len(vh_tree) :
          /\ vh_tree[c].bounds
                = <<"[", "4", ",", "6", "]", "[", "3", "2", ",", "4", "3", "]">>
          /\ findall_digits(vh_tree[c].bounds) = <<4, 6, 32, 43>>
          /\ vh_tree[c].x2 = 32

\* The unreserved attribute nodes the index lists under the id suffix of
\* geometry node v whose class has the same last segment as v's.
SameIdSameClass(v) ==
    IF /\ Truthy(vh_tree[v].resource_id)
       /\ extract_id_suffix(vh_tree[v].resource_id) \in DOMAIN ui_node_map
    THEN {ref \in {ui_node_map[extract_id_suffix(vh_tree[v].resource_id)][k] :
                     k \in 1..Len(ui_node_map[extract_id_suffix(vh_tree[v].resource_id)])} :
             /\ is_node_available(ui_objs, ref)
             /\ LastSegment(ui_objs[ref[1]][ref[2]].class)
                   = LastSegment(vh_tree[v].class)}
    ELSE {}

\* C19: a geometry node is matched to some attribute node whenever, at the
\* time it is processed, the index holds an unreserved attribute node with
\* the same id suffix and the same last class segment: that candidate alone
\* scores 0.4 + 0.3, which is over the threshold whatever its other terms.
C19_SameIdSameClassIsMatched ==
    [][(CallPending /\ SameIdSameClass(Head(call_stack).vh_node) # {}) =>
        /\ matched_ui' # NoNode
        /\ \A ref \in SameIdSameClass(Head(call_stack).vh_node) :
              /\ \E k \in 1..Len(candidates') : candidates'[k][1] = ref
              /\ ExactScore(vh_tree, Head(call_stack).vh_node, ui_objs, ref, TRUE)
                    >= 960 + 720
              /\ FGeq(calculate_match_score(vh_tree, Head(call_stack).vh_node,
                                            ui_objs, ref, TRUE), THRESHOLD)]_vars

\* A geometry node with children was matched to a childless attribute node
\* of the same id suffix and class, on which the child-count term is 0; the
\* match is not the context the node was processed in.
C19_Witness ==
    \E n \in DOMAIN match_of :
        /\ match_of[n] # NoNode
        /\ match_of[n] # ctx_of[n]
        /\ ChildCount(vh_tree, n) > 0
        /\ ChildCount(ui_objs[match_of[n][1]], match_of[n][2]) = 0
        /\ extract_id_suffix(vh_tree[n].resource_id)
              = extract_id_suffix(ui_objs[match_of[n][1]][match_of[n][2]].resource_id)
        /\ extract_id_suffix(parse_view_hierarchy(hierarchy_text.lines)[n].resource_id)
              = extract_id_suffix(ui_objs[match_of[n][1]][match_of[n][2]].resource_id)
        /\ LastSegment(vh_tree[n].class)
              = LastSegment(ui_objs[match_of[n][1]][match_of[n][2]].class)

\* The attribute nodes more than 2 levels below the context root ctx that
\* do not carry the id suffix of geometry node v.
DeepWithoutId(v, ctx) ==
    IF ctx = NoNode THEN {}
    ELSE {ref \in {<<ctx[1], i>> : i \in 1..Len(ui_objs[ctx[1]])} :
             /\ IsAncestor(ui_objs[ctx[1]], ctx[2], ref[2])
             /\ DepthBelow(ui_objs[ctx[1]], ctx[2], ref[2]) > 2
             /\ ~(/\ Truthy(vh_tree[v].resource_id)
                  /\ Truthy(ui_objs[ref[1]][ref[2]].resource_id)
                  /\ extract_id_suffix(vh_tree[v].resource_id)
                        = extract_id_suffix(ui_objs[ref[1]][ref[2]].resource_id))}

\* C20: an attribute node more than 2 levels below the current context root
\* (the context root is at depth 0) whose id suffix is not the geometry
\* node's is never in the candidate list and never the match of that
\* geometry node.
C20_DeepNodesExcluded ==
    [][CallPending =>
        \A ref \in DeepWithoutId(Head(call_stack).vh_node,
                                 Head(call_stack).ui_context) :
            /\ \A k \in 1..Len(candidates') : candidates'[k][1] # ref
            /\ matched_ui' # ref]_vars

\* A geometry node stayed unmatched although an unreserved attribute node
\* three levels below its context root scores over the threshold without
\* the id term.
C20_Witness ==
    \E n \in DOMAIN match_of :
        /\ match_of[n] = NoNode
        /\ \E ref \in DeepWithoutId(n, ctx_of[n]) :
              /\ is_node_available(ui_objs, ref)
              /\ ExactScore(vh_tree, n, ui_objs, ref, FALSE) >= 1200
              /\ FGeq(calculate_match_score(vh_tree, n, ui_objs, ref, FALSE),
                      THRESHOLD)

\* The nodes of the anchored attribute tree whose resource id has the suffix
\* key, as references in pre-order.
IndexedUnder(key) ==
    LET HasKey(i) == /\ Truthy(ui_objs[ui_tree][i].resource_id)
                     /\ extract_id_suffix(ui_objs[ui_tree][i].resource_id) = key
        hits == SelectSeq(Subtree(ui_objs[ui_tree], ui_content[2]), HasKey)
    IN  [k \in 1..Len(hits) |-> <<ui_tree, hits[k]>>]

\* C21: during every merge, also a later one on the same parser, the index
\* lists under each id suffix exactly the nodes of the anchored attribute
\* tree whose resource id has that suffix, each once, in pre-order; a node
\* with an empty resource id is under no key.
C21_IndexListsAnchoredTree ==
    pc = "merging" =>
        /\ \A key \in DOMAIN ui_node_map : ui_node_map[key] = IndexedUnder(key)
        /\ \A i \in 1..Len(ui_objs[ui_tree]) :
              (/\ i = ui_content[2] \/ IsAncestor(ui_objs[ui_tree], ui_content[2], i)
               /\ Truthy(ui_objs[ui_tree][i].resource_id))
                 => extract_id_suffix(ui_objs[ui_tree][i].resource_id)
                       \in DOMAIN ui_node_map

\* The kept nodes that hang under the synthetic root of the parser.
TopLevel == {i \in 1..Len(parser.nodes) : parser.nodes[i].parent = 0}

\* C24: the geometry parser returns the single top-level node itself when
\* exactly one top-level node was kept, and in every other case the
\* synthetic root, whose children are all the kept top-level nodes (maybe
\* none) in input order.
C24_SingleTopOrSyntheticRoot ==
    pc = "parsed" =>
        IF Cardinality(TopLevel) = 1
        THEN /\ vh_tree = parser.nodes
             /\ vh_tree[1].src # 0
             /\ TopLevel = {1}
        ELSE /\ vh_tree[1] = create_virtual_root
             /\ Len(vh_tree) = Len(parser.nodes) + 1
             /\ Children(vh_tree, 1) = SeqOfSet({i + 1 : i \in TopLevel})
             /\ \A i \in 1..Len(parser.nodes) :
                   /\ vh_tree[i + 1].src = parser.nodes[i].src
                   /\ vh_tree[i + 1].src # 0
                   /\ parser.nodes[i].parent # 0
                         => vh_tree[i + 1].parent = parser.nodes[i].parent + 1
             /\ \A i, j \in TopLevel : i < j => parser.nodes[i].src < parser.nodes[j].src

\* Exactly one top-level line was kept, after another top-level line was
\* filtered out, and the kept one is returned with its child.
C24_Witness ==
    /\ pc = "parsed"
    /\ Cardinality(TopLevel) = 1
    /\ Len(fates) >= 3
    /\ fates[1] = "filtered"
    /\ vh_tree[1].src = 2
    /\ Len(vh_tree) = 2

\* C25: a document-level failure while the attribute dump is parsed does not
\* reach the caller: parse_ui_xml returns None, parse_uiautomator stores and
\* returns None, no partly built tree is kept, and the caller goes on to its
\* end.
C25_MalformedDocumentGivesNoTree ==
    [][(pc = "idle" /\ ui_file.path = "file" /\ ~ui_file.doc.wellformed) =>
        /\ parse_ui_xml(ui_file.doc) = <<>>
        /\ ui_tree' = 0
        /\ ui_objs' = <<>>
        /\ hierarchy_data'.kind \notin {"ui", "merged"}
        /\ pc' = "done"]_vars

\* The hybrid parse ended on a document that breaks off after its first
\* element: the geometry tree was built, no attribute tree is stored.
C25_Witness ==
    /\ pc = "done"
    /\ ui_file = [path |-> "file", doc |-> TruncatedDoc]
    /\ hierarchy_text.ok
    /\ vh_tree # <<>>
    /\ ui_tree = 0
    /\ ui_objs = <<>>

\* The kept nodes before kept node c that have a smaller indent than c and
\* are still on the stack when c arrives: no kept node between them and c
\* has an indent as small as theirs.
OpenAncestors(c) ==
    {p \in 1..(c - 1) :
        /\ parser.nodes[p].indent < parser.nodes[c].indent
        /\ \A k \in (p + 1)..(c - 1) :
              parser.nodes[k].indent > parser.nodes[p].indent}

\* C26: the parent of every kept node is the most recent kept line before it
\* with a strictly smaller indent that no kept line in between has popped;
\* a kept node without such a line hangs under the synthetic root; and at
\* every step the ancestor stack holds kept nodes of strictly increasing
\* indents.
C26_ParentIsNearestOpenAncestor ==
    /\ \A c \in 1..Len(parser.nodes) :
          IF OpenAncestors(c) = {}
          THEN parser.nodes[c].parent = 0
          ELSE /\ parser.nodes[c].parent \in OpenAncestors(c)
               /\ \A p \in OpenAncestors(c) : p <= parser.nodes[c].parent
    /\ parser.nodes_stack = parser.parent_stack
    /\ \A k \in 1..(Len(parser.parent_stack) - 1) :
          /\ parser.parent_stack[k] < parser.parent_stack[k + 1]
          /\ parser.nodes[parser.parent_stack[k]].indent
                < parser.nodes[parser.parent_stack[k + 1]].indent

\* Three kept lines of indents 0, 2, 1: the third popped the second and
\* hangs under the first.
C26_Witness ==
    /\ Len(parser.nodes) = 3
    /\ parser.nodes[2].indent > parser.nodes[3].indent
    /\ parser.nodes[3].indent > parser.nodes[1].indent
    /\ parser.nodes[2].parent = 1
    /\ parser.nodes[3].parent = 1
    /\ parser.parent_stack = <<1, 3>>

\* C27: a merge changes neither the shape nor the geometry of the geometry
\* tree: every geometry node has, during and after every merge, the class,
\* the bounds (x1, y1, x2, y2, width, height, center) and the parent, at the
\* same place among the nodes, that parse_view_hierarchy gave it.
C27_MergeKeepsShapeAndGeometry ==
    pc \in {"merging", "returned"} =>
        /\ Len(vh_tree) = Len(parse_view_hierarchy(hierarchy_text.lines))
        /\ \A c \in 1..Len(vh_tree) :
              /\ vh_tree[c].class
                    = parse_view_hierarchy(hierarchy_text.lines)[c].class
              /\ vh_tree[c].parent
                    = parse_view_hierarchy(hierarchy_text.lines)[c].parent
              /\ vh_tree[c].bounds
                    = parse_view_hierarchy(hierarchy_text.lines)[c].bounds
              /\ <<vh_tree[c].x1, vh_tree[c].y1, vh_tree[c].x2, vh_tree[c].y2>>
                    = parse_view_hierarchy(hierarchy_text.lines)[c].absolute_bounds
              /\ vh_tree[c].width = vh_tree[c].x2 - vh_tree[c].x1
              /\ vh_tree[c].height = vh_tree[c].y2 - vh_tree[c].y1
              /\ vh_tree[c].center_x = (vh_tree[c].x1 + vh_tree[c].x2) \div 2
              /\ vh_tree[c].center_y = (vh_tree[c].y1 + vh_tree[c].y2) \div 2

\* After two merges a geometry node carries the text and the flags of an
\* attribute node of another class and another size.
C27_Witness ==
    /\ pc = "returned"
    /\ merges = 2
    /\ \E c \in DOMAIN match_of :
          /\ match_of[c] # NoNode
          /\ vh_tree[c].text = "Hello"
          /\ vh_tree[c].scrollable = "true"
          /\ vh_tree[c].class # ui_objs[match_of[c][1]][match_of[c][2]].class
          /\ vh_tree[c].width # ui_objs[match_of[c][1]][match_of[c][2]].width

\* C28: composing a line's bounds with its parent's only translates them:
\* every kept node has the width and the height of its line's relative
\* bounds, and the 0x0 check made after the composition never drops a line
\* that the check on the relative bounds let through.
C28_CompositionOnlyTranslates ==
    /\ \A j \in 1..Len(fates) : fates[j] # "filtered_abs"
    /\ \A c \in 1..Len(parser.nodes) :
          /\ parser.nodes[c].width = RelWidth(parser.nodes[c].src)
          /\ parser.nodes[c].height = RelHeight(parser.nodes[c].src)
          /\ ~(parser.nodes[c].width = 0 /\ parser.nodes[c].height = 0)

\* A line of zero width and non-zero height was kept below a parent whose
\* origin is not (0, 0).
C28_Witness ==
    \E c \in 1..Len(parser.nodes) :
        /\ parser.nodes[c].parent # 0
        /\ parser.nodes[parser.nodes[c].parent].x1 > 0
        /\ parser.nodes[parser.nodes[c].parent].y1 > 0
        /\ RelWidth(parser.nodes[c].src) = 0
        /\ parser.nodes[c].width = 0
        /\ parser.nodes[c].height > 0
        /\ fates[parser.nodes[c].src] = "kept"

\* C29: a reserved attribute node is never released, and throughout the
\* first merge of a parser (new parser, new attribute tree) the matched
\* counter is the number of reserved attribute nodes.
C29_ReservedCountedAndKept ==
    [][/\ \A o \in 1..Len(ui_objs) : \A i \in 1..Len(ui_objs[o]) :
             ui_objs[o][i].used => ui_objs'[o][i].used
       /\ merges' = 1 =>
             matched_count'
                = Cardinality({i \in 1..Len(ui_objs'[1]) : ui_objs'[1][i].used})]_vars

\* In a first merge two attribute nodes are reserved, two geometry nodes
\* are counted as matched and one as unmatched.
C29_Witness ==
    /\ pc = "merging"
    /\ merges = 1
    /\ matched_count = 2
    /\ unmatched_count = 1
    /\ Cardinality({i \in 1..Len(ui_objs[1]) : ui_objs[1][i].used}) = 2

\* Geometry node c lies in the subtree the merge started from.
InAnchoredSubtree(c) == c = vh_content \/ IsAncestor(vh_tree, vh_content, c)

\* C30: a merge works on the subtree of the geometry node it started from
\* and returns that node, not the root: only nodes of that subtree are
\* visited and counted, a node outside it is never modified, and the tree
\* handed back is rooted at the start node.
C30_OnlyAnchoredSubtree ==
    [][pc' \in {"merging", "returned"} =>
        /\ \A n \in DOMAIN match_of' :
              n = vh_content' \/ IsAncestor(vh_tree', vh_content', n)
        /\ (matched_count' - pass_start'.matched)
             + (unmatched_count' - pass_start'.unmatched)
             = Cardinality(DOMAIN match_of')
        /\ pc = "merging" =>
              \A c \in 1..Len(vh_tree) :
                  ~InAnchoredSubtree(c) => vh_tree'[c] = vh_tree[c]
        /\ pc' = "returned" =>
              /\ merge_result' = vh_content'
              /\ Cardinality(DOMAIN match_of') = Len(Subtree(vh_tree', vh_content'))
              /\ merges' = 1 =>
                    /\ hierarchy_data'.root = vh_content'
                    /\ hierarchy_data'.tree = vh_tree']_vars

\* A merge returned a start node below the root: the root and a sibling of
\* the start node were never visited, and one node is counted.
C30_Witness ==
    /\ pc = "returned"
    /\ merges = 1
    /\ Len(vh_tree) = 3
    /\ vh_content = 2
    /\ vh_tree[3].parent = 1
    /\ merge_result = 2
    /\ hierarchy_data.root = 2
    /\ DOMAIN match_of = {2}
    /\ matched_count + unmatched_count = 1
    /\ vh_tree[1].text_matched = "absent"
    /\ vh_tree[3].text_matched = "absent"

\* The nodes of the hierarchy shown that have coordinates and hold the last
\* point clicked.
NodesAtPoint ==
    {i \in 1..Len(hierarchy_data.tree) :
        /\ HasCoordinates(hierarchy_data.tree[i])
        /\ hierarchy_data.tree[i].x1 <= point[1]
        /\ point[1] <= hierarchy_data.tree[i].x2
        /\ hierarchy_data.tree[i].y1 <= point[2]
        /\ point[2] <= hierarchy_data.tree[i].y2}

\* C22: find_element_at_point returns a node whose bounds hold the point
\* and whose width * height is least among all such nodes of the tree; a
\* node without coordinates is never returned; nothing is returned when no
\* node holds the point.
C22_SmallestNodeAtPoint ==
    point # NoPoint =>
        IF NodesAtPoint = {}
        THEN element = 0
        ELSE /\ element \in NodesAtPoint
             /\ \A j \in NodesAtPoint :
                   hierarchy_data.tree[element].width
                      * hierarchy_data.tree[element].height
                   <= hierarchy_data.tree[j].width * hierarchy_data.tree[j].height

\* A click on a point held by two nodes below a root without coordinates:
\* the one returned is the smaller, which comes second in pre-order.
C22_Witness ==
    /\ point # NoPoint
    /\ Len(hierarchy_data.tree) = 3
    /\ ~HasCoordinates(hierarchy_data.tree[1])
    /\ Cardinality(NodesAtPoint) = 2
    /\ element = 3
    /\ 2 \in NodesAtPoint
    /\ hierarchy_data.tree[3].width * hierarchy_data.tree[3].height
          < hierarchy_data.tree[2].width * hierarchy_data.tree[2].height

\* Two characters are the same when case is set aside.
SameLetter(a, b) ==
    \/ a = b
    \/ \E k \in 1..Len(UpperCase) :
          {a, b} = {UpperCase[k], LowerCase[k]}

\* The field holds the text when case is set aside: at some offset every
\* character of the text is the same letter as the character of the field.
HoldsIgnoringCase(field, text) ==
    \E off \in 0..(Len(field) - Len(text)) :
       \A j \in 1..Len(text) : SameLetter(field[off + j], text[j])

\* The nodes of the hierarchy shown one of whose four fields holds the
\* text.
NodesHolding(text) ==
    {i \in 1..Len(hierarchy_data.tree) :
        \/ HoldsIgnoringCase(hierarchy_data.tree[i].class, text)
        \/ HoldsIgnoringCase(hierarchy_data.tree[i].resource_id, text)
        \/ HoldsIgnoringCase(hierarchy_data.tree[i].text, text)
        \/ HoldsIgnoringCase(hierarchy_data.tree[i].content_desc, text)}

\* The hits list each of the nodes once, in pre-order.
ListsInPreOrder(hits, nodes) ==
    /\ {hits[k] : k \in 1..Len(hits)} = nodes
    /\ \A k \in 1..(Len(hits) - 1) : hits[k] < hits[k + 1]

\* C23 as stated: after any search the results are, in pre-order, exactly
\* the nodes whose class, resource-id, text or content-desc holds the query
\* when case is set aside.
C23_SearchListsEveryMatch ==
    search_input # NoSearch =>
        ListsInPreOrder(results, NodesHolding(search_input))

\* C23, amended: a search with a query that is not empty lists, in
\* pre-order, exactly the nodes whose class, resource-id, text or
\* content-desc holds the query when case is set aside; with an empty query
\* searchElement returns before it searches and lists nothing.
C23_NonEmptySearchListsEveryMatch ==
    /\ (search_input # NoSearch /\ search_input # <<>>) =>
          ListsInPreOrder(results, NodesHolding(search_input))
    /\ search_input = <<>> => results = <<>>

\* A query in upper case found in a text, a resource-id and a
\* content-desc of mixed case, in three nodes listed in pre-order.
C23_Witness ==
    /\ search_input = <<"A", "B">>
    /\ Len(hierarchy_data.tree) = 3
    /\ results = <<1, 2, 3>>
    /\ hierarchy_data.tree[1].text = <<"A", "b">>
    /\ hierarchy_data.tree[2].resource_id = <<"p", "/", "a", "B">>
    /\ hierarchy_data.tree[3].content_desc = <<"t", "A", "B">>

====
